---- MODULE Spec2Model ----
(***************************************************************************)
(* Model of the 13F-HR filing text parsing and classification engine       *)
(* (src/src/data_extraction/extract_13F_HR.py and                          *)
(* src/src/data_transformation/class_title_transform.py).                  *)
(*                                                                         *)
(* Texts are TLA+ strings and every parser works on their characters:      *)
(* a regular expression of the source is an operator that returns the      *)
(* position after the match (0 when it does not match), re.search is the   *)
(* least start position with a match.                                      *)
(***************************************************************************)
EXTENDS Integers, Sequences, FiniteSets, TLC

VARIABLES
    text,           \* the input of the operation under way (document, block, markup, title, field)
    pc,             \* control position of the operation
    result,         \* what the operation returned or raised; <<>> while it runs
    line_no,        \* SECHeaderParser.parse_rows: number of lines of the block read so far
    section_stack,  \* SECHeaderParser.parse_rows: the currently open section names
    rows,           \* SECHeaderParser.parse_rows: the rows emitted so far
    stack_depths,   \* history: for each entry of section_stack, the depth of the line that opened it
    date_str,       \* Extractor13FHR.run: the resolved filing date
    filing_data_rows, \* Extractor13FHR.run: the rows of FilingDataResolver.parse
    info_rows,      \* Extractor13FHR.run: the rows of the holdings table
    df_infotable,   \* Extractor13FHR.run: the frame of to_dataframe; <<>> for None
    type_rows,      \* Extractor13FHR.run: the rows of the 13F-HR type block
    written,        \* what WorkbookWriter.write put on disk; <<>> while nothing is written
    row_no,         \* EdgarLinksProcessor.process_file: number of sheet rows read so far
    processed,      \* EdgarLinksProcessor.process_file: its counter of processed filings
    disk,           \* the files under data/raw_13F_HR: path |-> content
    now,            \* the clock time.time() reads, in seconds
    failed          \* history: number of 13F-HR rows of the file that failed so far

hdrVars == <<line_no, section_stack, rows, stack_depths>>
runVars == <<date_str, filing_data_rows, info_rows, df_infotable, type_rows, written>>
scrVars == <<row_no, processed, disk, now, failed>>
vars == <<text, pc, result, line_no, section_stack, rows, stack_depths,
          date_str, filing_data_rows, info_rows, df_infotable, type_rows, written,
          row_no, processed, disk, now, failed>>

(***************************************************************************)
(* Bounds of the model.                                                    *)
(***************************************************************************)
MaxCues == 3        \* date cues concatenated into one document
MaxLines == 3       \* lines of a header block
MaxIntLen == 3      \* characters of a numeric field text
MaxRows == 3        \* child elements of a holdings table
MaxRunRows == 2     \* child elements of the holdings table of a whole filing
MaxWords == 3       \* words of a security title
MaxTypeLines == 2   \* lines of a 13F-HR type block
MaxSegs == 3        \* segments of a document whose blocks are located
MaxParts == 3       \* parts a warrant title is put together from
MaxCalls == 2       \* parser calls running side by side
MaxFilings == 3     \* sheet rows of one Excel file
MaxTicks == 1       \* seconds that pass while a file is processed

(***************************************************************************)
(* Python values.                                                          *)
(***************************************************************************)
None == <<>>                        \* Optional[...]: None is <<>>, a value v is <<v>>
Some(v) == <<v>>
Return(v) == <<"return", v>>        \* the call returned v
Raise(e) == <<"raise", e>>          \* the call raised exception e
Returned(r) == Len(r) = 2 /\ r[1] = "return"
Raised(r) == Len(r) = 2 /\ r[1] = "raise"

(***************************************************************************)
(* Characters and the regular-expression atoms the source uses.            *)
(***************************************************************************)
At(t, i) == SubSeq(t, i, i)
DigitChars == <<"0", "1", "2", "3", "4", "5", "6", "7", "8", "9">>
IsDigit(c) == \E k \in 1..10 : DigitChars[k] = c
DigitVal(c) == (CHOOSE k \in 1..10 : DigitChars[k] = c) - 1
IsWs(c) == c \in {" ", "\t", "\n", "\r", "\f"}

SetMin(S) == CHOOSE x \in S : \A y \in S : x <= y

\* a literal at position i
Lit(t, i, lit) ==
    IF i > 0 /\ i + Len(lit) - 1 <= Len(t) /\ SubSeq(t, i, i + Len(lit) - 1) = lit
    THEN i + Len(lit) ELSE 0

\* \s* at position i (greedy; what follows it in the source's patterns is never whitespace)
WsStar(t, i) ==
    IF i = 0 THEN 0
    ELSE SetMin({j \in i..(Len(t) + 1) : j = Len(t) + 1 \/ ~IsWs(At(t, j))})

\* \s+ at position i
WsPlus(t, i) == IF i > 0 /\ i <= Len(t) /\ IsWs(At(t, i)) THEN WsStar(t, i) ELSE 0

\* \d{n} at position i
DigitsN(t, i, n) ==
    IF i > 0 /\ i + n - 1 <= Len(t) /\ \A k \in 0..(n - 1) : IsDigit(At(t, i + k))
    THEN i + n ELSE 0

\* re.search over the start positions S where a pattern matches: the leftmost, 0 for no match
FirstOf(S) == IF S = {} THEN 0 ELSE SetMin(S)

RECURSIVE ToStr(_)
ToStr(n) == IF n < 10 THEN DigitChars[n + 1] ELSE ToStr(n \div 10) \o DigitChars[(n % 10) + 1]

RECURSIVE ToNat(_)
ToNat(s) == IF s = "" THEN 0 ELSE 10 * ToNat(SubSeq(s, 1, Len(s) - 1)) + DigitVal(At(s, Len(s)))

RECURSIVE ZeroPad(_, _)
ZeroPad(s, w) == IF Len(s) >= w THEN s ELSE ZeroPad("0" \o s, w)

\* str.splitlines(): the lines of s without their line breaks
RECURSIVE splitlines(_)
splitlines(s) ==
    IF s = "" THEN <<>>
    ELSE LET B == {i \in 1..Len(s) : At(s, i) \in {"\n", "\r", "\f"}}
         IN IF B = {} THEN <<s>>
            ELSE LET i == SetMin(B)
                     j == IF At(s, i) = "\r" /\ i < Len(s) /\ At(s, i + 1) = "\n" THEN i + 2 ELSE i + 1
                 IN <<SubSeq(s, 1, i - 1)>> \o splitlines(SubSeq(s, j, Len(s)))

\* str.lstrip(chars) / str.rstrip(chars) for a set of characters
LStripSet(s, C) ==
    LET K == {i \in 1..(Len(s) + 1) : i = Len(s) + 1 \/ At(s, i) \notin C}
    IN SubSeq(s, SetMin(K), Len(s))
RStripSet(s, C) ==
    LET K == {i \in 0..Len(s) : i = 0 \/ At(s, i) \notin C}
    IN SubSeq(s, 1, CHOOSE i \in K : \A j \in K : j <= i)
WsChars == {" ", "\t", "\n", "\r", "\f"}
rstrip(s) == RStripSet(s, WsChars)
strip(s) == LStripSet(RStripSet(s, WsChars), WsChars)

Count(s, c) == Cardinality({i \in 1..Len(s) : At(s, i) = c})
Contains(s, sub) == \E i \in 1..(Len(s) - Len(sub) + 1) : SubSeq(s, i, i + Len(sub) - 1) = sub
EndsWith(s, suf) == Len(s) >= Len(suf) /\ SubSeq(s, Len(s) - Len(suf) + 1, Len(s)) = suf
\* s.find(sub): the least position of sub in s, 0 when absent
Find(s, sub) ==
    LET S == {i \in 1..(Len(s) - Len(sub) + 1) : SubSeq(s, i, i + Len(sub) - 1) = sub}
    IN IF S = {} THEN 0 ELSE SetMin(S)

RECURSIVE JoinWith(_, _)
JoinWith(sep, ss) ==
    IF ss = <<>> THEN ""
    ELSE IF Len(ss) = 1 THEN ss[1]
    ELSE ss[1] \o sep \o JoinWith(sep, Tail(ss))

RECURSIVE Join(_)
Join(ss) == IF ss = <<>> THEN "" ELSE Head(ss) \o Join(Tail(ss))

SeqsUpTo(S, n) == UNION {[1..k -> S] : k \in 0..n}

(***************************************************************************)
(* FilingDateResolver.parse_date                                           *)
(***************************************************************************)
\* r"CONFORMED\s+PERIOD\s+OF\s+REPORT:\s*(\d{8})": the start of group 1, 0 for no match
PeriodHeaderAt(t, i) ==
    LET a == WsPlus(t, Lit(t, i, "CONFORMED"))
        b == WsPlus(t, Lit(t, a, "PERIOD"))
        c == WsPlus(t, Lit(t, b, "OF"))
        g == WsStar(t, Lit(t, c, "REPORT:"))
    IN IF DigitsN(t, g, 8) # 0 THEN g ELSE 0

\* r"FILED\s+AS\s+OF\s+DATE:\s*(\d{8})"
FiledHeaderAt(t, i) ==
    LET a == WsPlus(t, Lit(t, i, "FILED"))
        b == WsPlus(t, Lit(t, a, "AS"))
        c == WsPlus(t, Lit(t, b, "OF"))
        g == WsStar(t, Lit(t, c, "DATE:"))
    IN IF DigitsN(t, g, 8) # 0 THEN g ELSE 0

\* r"<name>(\d{2}-\d{2}-\d{4})</name>"
DateTagAt(t, i, name) ==
    LET g == Lit(t, i, "<" \o name \o ">")
        a == Lit(t, DigitsN(t, g, 2), "-")
        b == Lit(t, DigitsN(t, a, 2), "-")
        e == Lit(t, DigitsN(t, b, 4), "</" \o name \o ">")
    IN IF e # 0 THEN g ELSE 0

PeriodTagAt(t, i) == DateTagAt(t, i, "periodOfReport")
QuarterTagAt(t, i) == DateTagAt(t, i, "reportCalendarOrQuarter")

\* re.search(pattern, t) for the four patterns: the start of group 1 in the
\* leftmost match, 0 when the pattern matches nowhere
PeriodHeader(t) == PeriodHeaderAt(t, FirstOf({i \in 1..Len(t) : PeriodHeaderAt(t, i) # 0}))
PeriodTag(t) == PeriodTagAt(t, FirstOf({i \in 1..Len(t) : PeriodTagAt(t, i) # 0}))
QuarterTag(t) == QuarterTagAt(t, FirstOf({i \in 1..Len(t) : QuarterTagAt(t, i) # 0}))
FiledHeader(t) == FiledHeaderAt(t, FirstOf({i \in 1..Len(t) : FiledHeaderAt(t, i) # 0}))

\* m.group(1): n characters from position g
Group(t, g, n) == SubSeq(t, g, g + n - 1)

IsLeap(y) == (y % 4 = 0 /\ y % 100 # 0) \/ y % 400 = 0
DaysIn(m, y) ==
    IF m = 2 THEN (IF IsLeap(y) THEN 29 ELSE 28)
    ELSE IF m \in {4, 6, 9, 11} THEN 30 ELSE 31

\* datetime.strptime(s, "%m-%d-%Y") on a text of the shape \d{2}-\d{2}-\d{4}:
\* <<year, month, day>>, or None when it raises ValueError
strptime(s) ==
    LET m == ToNat(SubSeq(s, 1, 2))
        d == ToNat(SubSeq(s, 4, 5))
        y == ToNat(SubSeq(s, 7, 10))
    IN IF m \in 1..12 /\ y >= 1 /\ d >= 1 /\ d <= DaysIn(m, y) THEN <<y, m, d>> ELSE None

\* dt.strftime("%Y%m%d"); the C library decides whether %Y pads a year below 1000
strftime(dt, padYear) ==
    (IF padYear THEN ZeroPad(ToStr(dt[1]), 4) ELSE ToStr(dt[1]))
        \o ZeroPad(ToStr(dt[2]), 2) \o ZeroPad(ToStr(dt[3]), 2)

\* one tag step of the cascade: reformat the tag's date
ReformatTag(s, padYear) ==
    IF strptime(s) = None THEN Raise("ValueError") ELSE Return(strftime(strptime(s), padYear))

\* mutant: the filing-date field is tried before the two tags
parse_date_filed_first(t, today, padYear) ==
    IF PeriodHeader(t) # 0 THEN Return(Group(t, PeriodHeader(t), 8))
    ELSE IF FiledHeader(t) # 0 THEN Return(Group(t, FiledHeader(t), 8))
    ELSE IF PeriodTag(t) # 0 THEN ReformatTag(Group(t, PeriodTag(t), 10), padYear)
    ELSE IF QuarterTag(t) # 0 THEN ReformatTag(Group(t, QuarterTag(t), 10), padYear)
    ELSE Return(today)

parse_date(t, today, padYear) ==
    IF PeriodHeader(t) # 0 THEN Return(Group(t, PeriodHeader(t), 8))
    ELSE IF PeriodTag(t) # 0 THEN ReformatTag(Group(t, PeriodTag(t), 10), padYear)
    ELSE IF QuarterTag(t) # 0 THEN ReformatTag(Group(t, QuarterTag(t), 10), padYear)
    ELSE IF FiledHeader(t) # 0 THEN Return(Group(t, FiledHeader(t), 8))
    ELSE Return(today)

\* the documents of the date resolver: up to MaxCues cue lines, in any order
DateCues == {
    "CONFORMED PERIOD OF REPORT:\t20240331\n",
    "CONFORMED PERIOD OF REPORT: 2024033\n",
    "<periodOfReport>12-31-2023</periodOfReport>\n",
    "<periodOfReport>13-01-2024</periodOfReport>\n",
    "<reportCalendarOrQuarter>09-30-2023</reportCalendarOrQuarter>\n",
    "<reportCalendarOrQuarter>02-29-2023</reportCalendarOrQuarter>\n",
    "<reportCalendarOrQuarter>06-30-0999</reportCalendarOrQuarter>\n",
    "FILED  AS OF DATE:\t\t20240514\n",
    "<TYPE>13F-HR\n" }

DateDocs == {Join(ss) : ss \in SeqsUpTo(DateCues, MaxCues)}
Todays == {"20261104"}

HeaderIdle == line_no = 0 /\ section_stack = <<>> /\ rows = <<>> /\ stack_depths = <<>>
RunIdle ==
    /\ date_str = "" /\ filing_data_rows = <<>> /\ info_rows = <<>>
    /\ df_infotable = <<>> /\ type_rows = <<>> /\ written = <<>>
ScrapeIdle == row_no = 0 /\ processed = 0 /\ disk = <<>> /\ now = 0 /\ failed = 0

InitDate == text \in DateDocs /\ pc = "parse_date" /\ result = <<>> /\ HeaderIdle /\ RunIdle /\ ScrapeIdle

ParseDate ==
    /\ pc = "parse_date"
    /\ \E today \in Todays, padYear \in BOOLEAN : result' = parse_date(text, today, padYear)
    /\ pc' = "done"
    /\ UNCHANGED <<text, hdrVars, runVars, scrVars>>

NextDate == ParseDate
SpecDate == InitDate /\ [][NextDate]_vars

\* the rank of the highest-priority cue the document holds (5: none, the current date)
CueRank(t) ==
    SetMin({k \in 1..5 :
        \/ k = 1 /\ \E i \in 1..Len(t) : PeriodHeaderAt(t, i) # 0
        \/ k = 2 /\ \E i \in 1..Len(t) : PeriodTagAt(t, i) # 0
        \/ k = 3 /\ \E i \in 1..Len(t) : QuarterTagAt(t, i) # 0
        \/ k = 4 /\ \E i \in 1..Len(t) : FiledHeaderAt(t, i) # 0
        \/ k = 5})

\* the first occurrence in the text of a line-anchored cue and the date it spells;
\* these read the text independently of the patterns above
AfterFirst(t, lit) == IF Find(t, lit) = 0 THEN "" ELSE SubSeq(t, Find(t, lit) + Len(lit), Len(t))

\* what the cue of rank k gives: its first occurrence, reformatted if it is a tag
CueOutcomes(t, k) ==
    IF k = 1 THEN {Return(Group(t, PeriodHeader(t), 8))}
    ELSE IF k = 2 THEN {ReformatTag(Group(t, PeriodTag(t), 10), p) : p \in BOOLEAN}
    ELSE IF k = 3 THEN {ReformatTag(Group(t, QuarterTag(t), 10), p) : p \in BOOLEAN}
    ELSE IF k = 4 THEN {Return(Group(t, FiledHeader(t), 8))}
    ELSE {Return(d) : d \in Todays}

\* C1: parse_date is a first-match-wins cascade: the outcome is that of the
\* highest-priority cue present in the document, wherever the cues sit in the
\* text, and no cue of lower priority (nor the current date) is consulted once a
\* cue matched; a document whose only cue is the filing-date field yields that
\* filing date.
C1_FirstMatchWins ==
    pc = "done" =>
        /\ result \in CueOutcomes(text, CueRank(text))
        /\ CueRank(text) = 4 =>
              /\ result = Return(SubSeq(strip(AfterFirst(text, "DATE:")), 1, 8))
              /\ result[2] \notin Todays

\* a filing-date field precedes the report-period tag in the text, and the
\* report period is returned
C1_Witness ==
    /\ pc = "done"
    /\ CueRank(text) = 2
    /\ FiledHeader(text) # 0
    /\ FiledHeader(text) < PeriodTag(text)
    /\ result = Return("20231231")

IsEightDigits(s) == Len(s) = 8 /\ \A i \in 1..8 : IsDigit(At(s, i))

\* C2: for every document parse_date returns a string of exactly 8 digits; it
\* never fails, also when a tag holds digits that are no calendar date.
C2_AlwaysEightDigits == pc = "done" => Returned(result) /\ IsEightDigits(result[2])

(***************************************************************************)
(* SECHeaderParser.parse_rows                                              *)
(***************************************************************************)
\* the locals of one loop iteration
HdrLine(raw) == rstrip(raw)
HdrContent(raw) == LStripSet(HdrLine(raw), {" ", "\t"})
indent_level(raw) ==
    LET line == HdrLine(raw)
        leading_ws == Len(line) - Len(HdrContent(raw))
        prefix == SubSeq(line, 1, leading_ws)
    IN Count(prefix, "\t") + (Count(prefix, " ") \div 2)

IsBlankLine(raw) == HdrLine(raw) = ""
IsOpenerLine(raw) ==
    ~IsBlankLine(raw) /\ EndsWith(HdrContent(raw), ":") /\ ~Contains(HdrContent(raw), ":\t")
IsFieldLine(raw) == ~IsBlankLine(raw) /\ ~IsOpenerLine(raw) /\ Contains(HdrContent(raw), ":")
IsNoteLine(raw) == ~IsBlankLine(raw) /\ ~IsOpenerLine(raw) /\ ~Contains(HdrContent(raw), ":")

\* while len(section_stack) > indent_level: section_stack.pop()
PopTo(stack, d) == IF Len(stack) > d THEN SubSeq(stack, 1, d) ELSE stack

section_path(stack) == IF stack # <<>> THEN JoinWith(" > ", stack) ELSE "HEADER"

\* the section-opener branch: the new stack
PushSection(stack, d, name) ==
    LET popped == PopTo(stack, d)
    IN IF Len(popped) = d THEN Append(popped, name)
       ELSE SubSeq(popped, 1, IF d < Len(popped) THEN d ELSE Len(popped)) \o <<name>>

SectionName(raw) == strip(SubSeq(HdrContent(raw), 1, Len(HdrContent(raw)) - 1))
FieldOf(raw) == strip(SubSeq(HdrContent(raw), 1, Find(HdrContent(raw), ":") - 1))
ValueOf(raw) ==
    strip(SubSeq(HdrContent(raw), Find(HdrContent(raw), ":") + 1, Len(HdrContent(raw))))

HeaderLines == {"A:", "\tB:", "\t\tX: 1", "\tY: 2", "X: 1", "  C:", "\tnote", " \t", "K:\tv:"}
HeaderDocs == {Join([k \in 1..Len(ss) |-> ss[k] \o "\n"]) : ss \in SeqsUpTo(HeaderLines, MaxLines)}

InitHeader ==
    /\ text \in HeaderDocs
    /\ pc = "parse_rows"
    /\ result = <<>>
    /\ HeaderIdle /\ RunIdle /\ ScrapeIdle

\* the line the loop reads next
MoreLines == pc = "parse_rows" /\ line_no < Len(splitlines(text))
NextLine == splitlines(text)[line_no + 1]

BlankLine ==
    /\ MoreLines /\ IsBlankLine(NextLine)
    /\ line_no' = line_no + 1
    /\ UNCHANGED <<text, pc, result, section_stack, rows, stack_depths, runVars, scrVars>>

SectionOpener ==
    /\ MoreLines /\ IsOpenerLine(NextLine)
    /\ section_stack' = PushSection(section_stack, indent_level(NextLine), SectionName(NextLine))
    /\ stack_depths' = PushSection(stack_depths, indent_level(NextLine), indent_level(NextLine))
    /\ line_no' = line_no + 1
    /\ UNCHANGED <<text, pc, result, rows, runVars, scrVars>>

FieldLine ==
    /\ MoreLines /\ IsFieldLine(NextLine)
    /\ section_stack' = PopTo(section_stack, indent_level(NextLine))
    /\ stack_depths' = PopTo(stack_depths, indent_level(NextLine))
    /\ rows' = Append(rows, [section_path |-> section_path(section_stack'),
                              field |-> FieldOf(NextLine), value |-> ValueOf(NextLine)])
    /\ line_no' = line_no + 1
    /\ UNCHANGED <<text, pc, result, runVars, scrVars>>

\* mutant: a line with neither pattern is skipped like a blank line
NoteLine_dropped ==
    /\ MoreLines /\ IsNoteLine(NextLine)
    /\ line_no' = line_no + 1
    /\ UNCHANGED <<text, pc, result, section_stack, rows, stack_depths, runVars, scrVars>>

NoteLine ==
    /\ MoreLines /\ IsNoteLine(NextLine)
    /\ rows' = Append(rows, [section_path |-> section_path(section_stack),
                              field |-> "_note", value |-> HdrContent(NextLine)])
    /\ line_no' = line_no + 1
    /\ UNCHANGED <<text, pc, result, section_stack, stack_depths, runVars, scrVars>>

EndOfBlock ==
    /\ pc = "parse_rows" /\ line_no = Len(splitlines(text))
    /\ result' = Return(rows)
    /\ pc' = "done"
    /\ UNCHANGED <<text, line_no, section_stack, rows, stack_depths, runVars, scrVars>>

NextHeader == BlankLine \/ SectionOpener \/ FieldLine \/ NoteLine \/ EndOfBlock
SpecHeader == InitHeader /\ [][NextHeader]_vars

\* the last line the loop has read
LastLine == splitlines(text)[line_no]

\* C7: after a field line at depth d the row's section path is the stack popped
\* down to d entries, joined in order, so it holds no section opened at a depth
\* >= d before that line.
C7_FieldPathExcludesClosed ==
    (line_no >= 1 /\ IsFieldLine(LastLine)) =>
        /\ Len(section_stack) <= indent_level(LastLine)
        /\ rows[Len(rows)].section_path = section_path(section_stack)
        /\ \A k \in 1..Len(stack_depths) : stack_depths[k] < indent_level(LastLine)

\* C8: after a section opener at depth d the new name is the top of the stack at
\* stack index d (the stack is indexed by depth), and no earlier entry of depth
\* >= d is left below it.
C8_OpenerAtDepthIndex ==
    (line_no >= 1 /\ IsOpenerLine(LastLine)) =>
        /\ Len(section_stack) = indent_level(LastLine) + 1
        /\ section_stack[Len(section_stack)] = SectionName(LastLine)
        /\ \A k \in 1..(Len(stack_depths) - 1) : stack_depths[k] < indent_level(LastLine)

\* the lines read so far that are neither blank nor section openers
EmittingLines ==
    SelectSeq(SubSeq(splitlines(text), 1, line_no),
              LAMBDA l : ~IsBlankLine(l) /\ ~IsOpenerLine(l))

C9_RowPerLine ==
    /\ Len(rows) = Len(EmittingLines)
    /\ \A k \in 1..Len(rows) :
          /\ IsNoteLine(EmittingLines[k]) => rows[k].value = strip(EmittingLines[k])
          /\ IsFieldLine(EmittingLines[k]) =>
                rows[k].field \o ":" = SubSeq(strip(EmittingLines[k]), 1, Len(rows[k].field) + 1)
    /\ pc = "done" => result = Return(rows)

C9_LineStep ==
    /\ (line_no' = line_no + 1 /\ IsBlankLine(NextLine)) =>
          (rows' = rows /\ section_stack' = section_stack)
    /\ (line_no' = line_no + 1 /\ IsNoteLine(NextLine)) =>
          /\ Len(rows') = Len(rows) + 1
          /\ rows'[Len(rows')].section_path = section_path(section_stack)
          /\ section_stack' = section_stack

\* C9: the header parser loses no line: every non-blank line that is no section
\* opener gives exactly one row, rows come in line order, a line with neither
\* pattern is emitted with its trimmed text as value under the current section
\* path, and a blank line gives no row and leaves the section stack as it is.
C9_NoLineLost == []C9_RowPerLine /\ [][C9_LineStep]_vars

\* a block with a blank line and a line of neither pattern, under an open section
C9_Witness ==
    /\ pc = "done"
    /\ \E i \in 1..line_no : IsBlankLine(splitlines(text)[i])
    /\ \E k \in 1..Len(rows) : rows[k].field = "_note" /\ rows[k].section_path # "HEADER"

(***************************************************************************)
(* InfoTableExtractor._to_int                                              *)
(***************************************************************************)
RECURSIVE DigitsOf(_)
\* re.sub(r"[^0-9]", "", s)
DigitsOf(s) ==
    IF s = "" THEN ""
    ELSE (IF IsDigit(At(s, 1)) THEN At(s, 1) ELSE "") \o DigitsOf(SubSeq(s, 2, Len(s)))

RECURSIVE Without(_, _)
Without(s, c) ==
    IF s = "" THEN ""
    ELSE (IF At(s, 1) = c THEN "" ELSE At(s, 1)) \o Without(SubSeq(s, 2, Len(s)), c)

\* the text int(s) reads after stripping whitespace and an optional sign
IntBody(s) ==
    LET b == strip(s)
    IN IF b # "" /\ At(b, 1) \in {"+", "-"} THEN SubSeq(b, 2, Len(b)) ELSE b
IntNegative(s) == strip(s) # "" /\ At(strip(s), 1) = "-"

\* int(s) does not raise ValueError: digits, single underscores only between digits
IntParses(s) ==
    LET b == IntBody(s)
    IN /\ b # ""
       /\ \A i \in 1..Len(b) : IsDigit(At(b, i)) \/ At(b, i) = "_"
       /\ IsDigit(At(b, 1)) /\ IsDigit(At(b, Len(b)))
       /\ ~Contains(b, "__")
IntValue(s) ==
    IF IntNegative(s) THEN 0 - ToNat(Without(IntBody(s), "_")) ELSE ToNat(Without(IntBody(s), "_"))

\* mutant: a field without digits becomes zero
to_int_zero(s) ==
    IF s = "" THEN Some(0)
    ELSE IF IntParses(s) THEN Some(IntValue(s))
    ELSE IF DigitsOf(s) # "" THEN Some(ToNat(DigitsOf(s))) ELSE Some(0)

to_int(s) ==
    IF s = "" THEN None
    ELSE IF IntParses(s) THEN Some(IntValue(s))
    ELSE IF DigitsOf(s) # "" THEN Some(ToNat(DigitsOf(s))) ELSE None

IntAlphabet == {"0", "1", "2", ",", "-", "+", "_", " ", "N"}
IntInputs == {Join(ss) : ss \in SeqsUpTo(IntAlphabet, MaxIntLen)} \cup {"1,234", "-1,234", "N/A"}

InitToInt == text \in IntInputs /\ pc = "_to_int" /\ result = <<>> /\ HeaderIdle /\ RunIdle /\ ScrapeIdle

ToInt ==
    /\ pc = "_to_int"
    /\ result' = Return(to_int(text))
    /\ pc' = "done"
    /\ UNCHANGED <<text, hdrVars, runVars, scrVars>>

NextToInt == ToInt
SpecToInt == InitToInt /\ [][NextToInt]_vars

HasDigit(s) == \E i \in 1..Len(s) : IsDigit(At(s, i))
HasNonDigit(s) == \E i \in 1..Len(s) : ~IsDigit(At(s, i))

\* C6: for every numeric field text with a non-digit character the result is the
\* integer formed by its digit characters in order; with no digit at all the
\* result is None, never zero and never an error.
C6_DigitsInOrder ==
    pc = "done" =>
        /\ (HasNonDigit(text) /\ HasDigit(text)) => result = Return(Some(ToNat(DigitsOf(text))))
        /\ ~HasDigit(text) => result = Return(None)

\* C6 as amended: the digits in order give the magnitude; the value is negative
\* only for a text that is itself an integer literal with a minus sign (the
\* direct parse, e.g. "-5"); with no digit at all the result is None.
C6_TolerantCoercion ==
    pc = "done" =>
        /\ Returned(result)
        /\ ~HasDigit(text) => result[2] = None
        /\ HasDigit(text) =>
              /\ result[2] # None
              /\ result[2][1] \in {ToNat(DigitsOf(text)), 0 - ToNat(DigitsOf(text))}
              /\ result[2][1] < 0 => (IntParses(text) /\ IntNegative(text))
              /\ ~IntParses(text) => result[2][1] = ToNat(DigitsOf(text))

\* "1,234" has been coerced to 1234
C6_Witness == pc = "done" /\ text = "1,234" /\ result = Return(Some(1234))

(***************************************************************************)
(* InfoTableExtractor.parse_rows: ET.fromstring, findall, _get_text        *)
(***************************************************************************)
INFORMATION_TABLE_NS == "http://www.sec.gov/edgar/document/thirteenf/informationtable"

\* the least position >= i of character c in s, 0 when there is none
IndexFrom(s, i, c) == FirstOf({j \in i..Len(s) : At(s, j) = c})

\* the text between "<" and ">" as a token: a closing tag, an empty element or
\* an opening tag with its name and attribute text
TagToken(body) ==
    LET closing == body # "" /\ At(body, 1) = "/"
        empty == ~closing /\ EndsWith(body, "/")
        inner == IF closing THEN SubSeq(body, 2, Len(body))
                 ELSE IF empty THEN SubSeq(body, 1, Len(body) - 1) ELSE body
        sp == FirstOf({i \in 1..Len(inner) : IsWs(At(inner, i))})
        name == IF sp = 0 THEN inner ELSE SubSeq(inner, 1, sp - 1)
        attrs == IF sp = 0 THEN "" ELSE strip(SubSeq(inner, sp, Len(inner)))
    IN IF name = "" \/ Contains(body, "<") \/ (closing /\ attrs # "")
       THEN [kind |-> "bad", name |-> "", attrs |-> ""]
       ELSE [kind |-> IF closing THEN "close" ELSE IF empty THEN "empty" ELSE "open",
             name |-> name, attrs |-> attrs]

\* the scanner at position st[1] with the tokens st[2] read so far: the next
\* tag or run of character data is read; at the end of the markup nothing changes
XmlTokenStep(s, st) ==
    LET i == st[1]
        bad == [kind |-> "bad", name |-> "", attrs |-> ""]
    IN IF i > Len(s) THEN st
       ELSE IF At(s, i) = "<"
            THEN LET j == IndexFrom(s, i + 1, ">")
                 IN IF j = 0 THEN <<Len(s) + 1, Append(st[2], bad)>>
                    ELSE <<j + 1, Append(st[2], TagToken(SubSeq(s, i + 1, j - 1)))>>
            ELSE LET j == IndexFrom(s, i, "<")
                     e == IF j = 0 THEN Len(s) + 1 ELSE j
                 IN <<e, Append(st[2], [kind |-> "text", name |-> SubSeq(s, i, e - 1), attrs |-> ""])>>

RECURSIVE XmlScan(_, _, _)
\* n scanner steps from st, in order; the scan stops at the end of the markup
XmlScan(s, n, st) ==
    IF n = 0 THEN st
    ELSE IF n = 1 THEN XmlTokenStep(s, st)
    ELSE LET mid == XmlScan(s, n \div 2, st)
         IN IF mid[1] > Len(s) THEN mid ELSE XmlScan(s, n - (n \div 2), mid)

\* the tags and character data of the markup from position i on (a token
\* takes at least one character, so Len(s) steps reach the end)
XmlTokens(s, i) == XmlScan(s, Len(s), <<i, <<>>>>)[2]

\* the default namespace an attribute text declares, "" when it declares none
XmlnsOf(attrs) ==
    LET q == Find(attrs, "xmlns=\"")
        e == IF q = 0 THEN 0 ELSE IndexFrom(attrs, q + 7, "\"")
    IN IF q = 0 \/ e = 0 THEN "" ELSE SubSeq(attrs, q + 7, e - 1)

\* the tree builder after the token t.  st is <<nodes, open>>, or None once
\* the markup is no tree.  nodes: the elements in document order (node 1 is the
\* root, each node names its parent, its namespace and its text); open: the
\* indices of the elements still open, innermost last.
TreeStep(st, t) ==
    IF st = None THEN None
    ELSE LET nodes == st[1]
             open == st[2]
             top == IF open = <<>> THEN 0 ELSE open[Len(open)]
             node == [tag |-> t.name, parent |-> top, text |-> "", kids |-> 0,
                      ns |-> IF XmlnsOf(t.attrs) # "" THEN XmlnsOf(t.attrs)
                             ELSE IF top = 0 THEN "" ELSE nodes[top].ns]
             withKid == IF top = 0 THEN nodes ELSE [nodes EXCEPT ![top].kids = @ + 1]
         IN IF t.kind = "bad" THEN None
            ELSE IF t.kind = "text"
                 THEN IF top = 0
                      THEN (IF strip(t.name) = "" THEN st ELSE None)
                      ELSE <<IF nodes[top].kids = 0 THEN [nodes EXCEPT ![top].text = t.name]
                             ELSE nodes, open>>
            ELSE IF t.kind = "close"
                 THEN IF top = 0 \/ nodes[top].tag # t.name THEN None
                      ELSE <<nodes, SubSeq(open, 1, Len(open) - 1)>>
            ELSE IF top = 0 /\ nodes # <<>> THEN None
            ELSE <<Append(withKid, node),
                   IF t.kind = "open" THEN Append(open, Len(nodes) + 1) ELSE open>>

RECURSIVE BuildTree(_, _, _, _)
\* the tree builder run over the tokens lo..hi, in order, from st; it stops
\* at the token that makes the markup no tree
BuildTree(toks, lo, hi, st) ==
    IF lo > hi THEN st
    ELSE IF lo = hi THEN TreeStep(st, toks[lo])
    ELSE LET mid == BuildTree(toks, lo, (lo + hi) \div 2, st)
         IN IF mid = None THEN None ELSE BuildTree(toks, (lo + hi) \div 2 + 1, hi, mid)

\* ET.fromstring(xml)
\* the nodes of the tree, or None when the markup is no tree
\* (xml.etree.ElementTree.ParseError): an element left open, or no element
fromstring(xml) ==
    LET toks == XmlTokens(xml, 1)
        st == BuildTree(toks, 1, Len(toks), <<<<>>, <<>>>>)
    IN IF st = None THEN None
       ELSE IF st[2] = <<>> /\ st[1] # <<>> THEN st[1] ELSE None

\* node.find("it:tag", NS): the first child of node n with that qualified name, 0 for None
FindChild(nodes, n, tag) ==
    IF n = 0 THEN 0
    ELSE FirstOf({c \in 1..Len(nodes) : nodes[c].parent = n /\ nodes[c].tag = tag
                                          /\ nodes[c].ns = INFORMATION_TABLE_NS})

RECURSIVE FindPath(_, _, _)
\* node.find("it:a/it:b", NS)
FindPath(nodes, n, path) ==
    IF path = <<>> THEN n ELSE FindPath(nodes, FindChild(nodes, n, Head(path)), Tail(path))

get_text(nodes, n, path) ==
    IF FindPath(nodes, n, path) = 0 THEN "" ELSE strip(nodes[FindPath(nodes, n, path)].text)

RECURSIVE Ascending(_)
\* the elements of a set of numbers in increasing order
Ascending(S) == IF S = {} THEN <<>> ELSE <<SetMin(S)>> \o Ascending(S \ {SetMin(S)})

\* root.findall("it:infoTable", NS): the row elements, in document order
findall(nodes) ==
    Ascending({c \in 1..Len(nodes) : nodes[c].parent = 1 /\ nodes[c].tag = "infoTable"
                                       /\ nodes[c].ns = INFORMATION_TABLE_NS})

\* the dict appended for one row element
InfoRow(nodes, n) ==
    [issuer_name |-> get_text(nodes, n, <<"nameOfIssuer">>),
     class_title |-> get_text(nodes, n, <<"titleOfClass">>),
     cusip |-> get_text(nodes, n, <<"cusip">>),
     value_usd_quarter_end |-> to_int(get_text(nodes, n, <<"value">>)),
     shares_or_principal |-> to_int(get_text(nodes, n, <<"shrsOrPrnAmt", "sshPrnamt">>)),
     shares_type |-> get_text(nodes, n, <<"shrsOrPrnAmt", "sshPrnamtType">>),
     discretion |-> get_text(nodes, n, <<"investmentDiscretion">>),
     other_manager_seq |-> to_int(get_text(nodes, n, <<"otherManager">>)),
     vote_sole |-> to_int(get_text(nodes, n, <<"votingAuthority", "Sole">>)),
     vote_shared |-> to_int(get_text(nodes, n, <<"votingAuthority", "Shared">>)),
     vote_none |-> to_int(get_text(nodes, n, <<"votingAuthority", "None">>))]

\* mutant: a row element without any resolvable field is skipped
parse_rows_skip_empty(xml) ==
    LET root == fromstring(xml)
        it_nodes == findall(root)
    IN IF root = None THEN Raise("ParseError")
       ELSE Return(SelectSeq([k \in 1..Len(it_nodes) |-> InfoRow(root, it_nodes[k])],
                             LAMBDA r : r.cusip # "" \/ r.issuer_name # ""))

parse_rows(xml) ==
    LET root == fromstring(xml)
        it_nodes == findall(root)
    IN IF root = None THEN Raise("ParseError")
       ELSE Return([k \in 1..Len(it_nodes) |-> InfoRow(root, it_nodes[k])])

\* the child elements the tables of the model are built from
RowElements == {
    "<infoTable><nameOfIssuer>ACME</nameOfIssuer><cusip>000360206</cusip><value>1,234</value>"
        \o "<shrsOrPrnAmt><sshPrnamt>100</sshPrnamt><sshPrnamtType>SH</sshPrnamtType></shrsOrPrnAmt>"
        \o "<votingAuthority><Sole>N/A</Sole></votingAuthority></infoTable>\n",
    "<infoTable><cusip> 12 </cusip><value>abc</value></infoTable>",
    "<infoTable></infoTable>\n",
    "<infoTable/>",
    "<summary>x</summary>",
    "<infoTable><cusip>1</infoTable>" }
RootTags == {"<informationTable xmlns=\"" \o INFORMATION_TABLE_NS \o "\">", "<informationTable>"}
TableDocs ==
    {r \o "\n" \o Join(ss) \o "</informationTable>" : r \in RootTags, ss \in SeqsUpTo(RowElements, MaxRows)}

InitTable == text \in TableDocs /\ pc = "parse_rows" /\ result = <<>> /\ HeaderIdle /\ RunIdle /\ ScrapeIdle

ParseRows ==
    /\ pc = "parse_rows"
    /\ result' = parse_rows(text)
    /\ pc' = "done"
    /\ UNCHANGED <<text, hdrVars, runVars, scrVars>>

NextTable == ParseRows
SpecTable == InitTable /\ [][NextTable]_vars

\* the table of the text is in the SEC information-table namespace
InTableNs(t) == Contains(SubSeq(t, 1, IndexFrom(t, 1, ">")), "xmlns=\"" \o INFORMATION_TABLE_NS \o "\"")

\* where the row elements start in the text, read off its characters
RowStarts(t) ==
    Ascending({i \in 1..Len(t) : Lit(t, i, "<infoTable>") # 0 \/ Lit(t, i, "<infoTable/>") # 0})

\* the text of the k-th row element (up to the next row element)
RowSpan(t, k) ==
    SubSeq(t, RowStarts(t)[k],
           IF k < Len(RowStarts(t)) THEN RowStarts(t)[k + 1] - 1 ELSE Len(t))

\* the trimmed text between <tag> and the next "<" in a span, "" when the tag is absent
TagText(span, tag) ==
    IF Find(span, "<" \o tag \o ">") = 0 THEN ""
    ELSE strip(SubSeq(span, Find(span, "<" \o tag \o ">") + Len(tag) + 2,
                      IndexFrom(span, Find(span, "<" \o tag \o ">") + 1, "<") - 1))

NoFields(r) ==
    /\ r.issuer_name = "" /\ r.class_title = "" /\ r.cusip = ""
    /\ r.shares_type = "" /\ r.discretion = ""
    /\ r.value_usd_quarter_end = None /\ r.shares_or_principal = None
    /\ r.other_manager_seq = None
    /\ r.vote_sole = None /\ r.vote_shared = None /\ r.vote_none = None

\* C5: for every well-formed holdings table parse_rows returns as many rows as
\* the table has infoTable elements, in the same order; an element with no
\* resolvable field still gives a row, with every text field "" and every
\* numeric field None.
C5_RowCardinality ==
    (pc = "done" /\ Returned(result) /\ InTableNs(text)) =>
        /\ Len(result[2]) = Len(RowStarts(text))
        /\ \A k \in 1..Len(result[2]) :
              /\ result[2][k].cusip = TagText(RowSpan(text, k), "cusip")
              /\ result[2][k].issuer_name = TagText(RowSpan(text, k), "nameOfIssuer")
              /\ (~Contains(RowSpan(text, k), "<cusip>") /\ ~Contains(RowSpan(text, k), "<value>"))
                    => NoFields(result[2][k])

\* three rows, one of them without any field between two rows with fields
C5_Witness ==
    /\ pc = "done" /\ Returned(result) /\ InTableNs(text)
    /\ Len(result[2]) = 3
    /\ result[2][1].cusip = "000360206"
    /\ NoFields(result[2][2])
    /\ result[2][3].cusip = "12"

(***************************************************************************)
(* Block location: SECHeaderParser.extract_block,                          *)
(* InfoTableExtractor.extract_xml, TypeBlockScraper13FHR.extract_block     *)
(***************************************************************************)
LowerChars == "abcdefghijklmnopqrstuvwxyz"
UpperChars == "ABCDEFGHIJKLMNOPQRSTUVWXYZ"
UpperChar(c) ==
    IF IndexFrom(LowerChars, 1, c) = 0 THEN c ELSE At(UpperChars, IndexFrom(LowerChars, 1, c))
RECURSIVE Upper(_)
\* str.upper() / the letters as re.IGNORECASE compares them
Upper(s) ==
    IF Len(s) <= 1 THEN UpperChar(s)
    ELSE Upper(SubSeq(s, 1, Len(s) \div 2)) \o Upper(SubSeq(s, Len(s) \div 2 + 1, Len(s)))
IsAlnum(c) == c # "" /\ (IsDigit(c) \/ IndexFrom(LowerChars, 1, c) # 0 \/ IndexFrom(UpperChars, 1, c) # 0)
IsWordChar(c) == IsAlnum(c) \/ c = "_"

\* s.find(sub, i): the least position >= i of sub in s, 0 when absent
FindFrom(s, sub, i) ==
    IF i = 0 \/ i > Len(s) THEN 0
    ELSE IF Find(SubSeq(s, i, Len(s)), sub) = 0 THEN 0
    ELSE Find(SubSeq(s, i, Len(s)), sub) + i - 1

\* SECHeaderParser.extract_block: r"<SEC-HEADER>([\s\S]*?)</SEC-HEADER>", stripped
header_extract_block(t) ==
    LET a == Find(t, "<SEC-HEADER>")
        e == FindFrom(t, "</SEC-HEADER>", a + 12)
    IN IF a = 0 \/ e = 0 THEN None ELSE Some(strip(SubSeq(t, a + 12, e - 1)))

\* r"<TEXT>\s*(<informationTable[\s\S]*?</informationTable>)\s*</TEXT>" at position j:
\* <<start, end>> of group 1, None when it does not match there
TextBlockAt(t, j) ==
    LET g == WsStar(t, Lit(t, j, "<TEXT>"))
        h == Lit(t, g, "<informationTable")
        K == {k \in h..Len(t) : h # 0 /\ Lit(t, k, "</informationTable>") # 0
                 /\ Lit(t, WsStar(t, Lit(t, k, "</informationTable>")), "</TEXT>") # 0}
    IN IF h = 0 \/ K = {} THEN None ELSE <<g, SetMin(K) + 18>>

\* r"<FILENAME>form13fInfoTable\.xml[\s\S]*?<TEXT>..." : group 1 of the leftmost match
NamedTable(t) ==
    LET I == {i \in 1..Len(t) : Lit(t, i, "<FILENAME>form13fInfoTable.xml") # 0
                 /\ \E j \in (i + 30)..Len(t) : TextBlockAt(t, j) # None}
        i == SetMin(I)
        j == SetMin({x \in (i + 30)..Len(t) : TextBlockAt(t, x) # None})
    IN IF I = {} THEN None ELSE Some(SubSeq(t, TextBlockAt(t, j)[1], TextBlockAt(t, j)[2]))

\* r"(<informationTable[\s\S]*?</informationTable>)": the leftmost match
BareTable(t) ==
    LET I == {i \in 1..Len(t) : Lit(t, i, "<informationTable") # 0
                 /\ FindFrom(t, "</informationTable>", i + 17) # 0}
    IN IF I = {} THEN None
       ELSE Some(SubSeq(t, SetMin(I), FindFrom(t, "</informationTable>", SetMin(I) + 17) + 18))

\* extract_xml with the two patterns tried in the other order
extract_xml_bare_first(t) == IF BareTable(t) # None THEN BareTable(t) ELSE NamedTable(t)

extract_xml(t) == IF NamedTable(t) # None THEN NamedTable(t) ELSE BareTable(t)

\* a literal at position i under re.IGNORECASE (lit is given in upper case)
LitI(t, i, lit) ==
    IF i > 0 /\ i + Len(lit) - 1 <= Len(t) /\ UpperChar(At(t, i)) = At(lit, 1)
       /\ Upper(SubSeq(t, i, i + Len(lit) - 1)) = lit
    THEN i + Len(lit) ELSE 0

\* r"<TYPE>\s*word\b" with re.IGNORECASE at position i: the position after the match
TypeMarkerAt(t, i, word) ==
    LET e == LitI(t, WsStar(t, LitI(t, i, "<TYPE>")), word)
    IN IF e # 0 /\ (e > Len(t) \/ ~IsWordChar(At(t, e))) THEN e ELSE 0

\* extract_block with the end marker searched from the start of the text
type_extract_block_any_end(t) ==
    LET S == {i \in 1..Len(t) : TypeMarkerAt(t, i, "13F-HR") # 0}
        start_end == TypeMarkerAt(t, SetMin(S), "13F-HR")
        E == {i \in 1..Len(t) : TypeMarkerAt(t, i, "INFORMATION TABLE") # 0}
        end_pos == IF E = {} THEN start_end ELSE SetMin(E)
        block == strip(SubSeq(t, start_end, end_pos - 1))
    IN IF S = {} THEN None ELSE IF block # "" THEN Some(block) ELSE None

\* extract_block with a block that runs to the end of the text when no end
\* marker follows the start marker
type_extract_block_to_eof(t) ==
    LET S == {i \in 1..Len(t) : TypeMarkerAt(t, i, "13F-HR") # 0}
        start_end == TypeMarkerAt(t, SetMin(S), "13F-HR")
        rest == SubSeq(t, start_end, Len(t))
        E == {i \in 1..Len(rest) : TypeMarkerAt(rest, i, "INFORMATION TABLE") # 0}
        end_pos == IF E = {} THEN Len(t) + 1 ELSE start_end + SetMin(E) - 1
        block == strip(SubSeq(t, start_end, end_pos - 1))
    IN IF S = {} THEN None ELSE IF block # "" THEN Some(block) ELSE None

\* TypeBlockScraper13FHR.extract_block
type_extract_block(t) ==
    LET S == {i \in 1..Len(t) : TypeMarkerAt(t, i, "13F-HR") # 0}
        start_end == TypeMarkerAt(t, SetMin(S), "13F-HR")      \* m_start.end(), 1-based
        rest == SubSeq(t, start_end, Len(t))
        E == {i \in 1..Len(rest) : TypeMarkerAt(rest, i, "INFORMATION TABLE") # 0}
        end_pos == start_end + (IF E = {} THEN 0 ELSE SetMin(E) - 1)
        block == strip(SubSeq(t, start_end, end_pos - 1))
    IN IF S = {} THEN None ELSE IF block # "" THEN Some(block) ELSE None

(***************************************************************************)
(* TypeBlockScraper13FHR.parse_to_rows                                     *)
(***************************************************************************)
\* r"^</?[A-Za-z0-9]+>" : the position of the ">" that ends a leading tag, 0 for no match
LeadingTag(line, slash) ==
    LET a == IF slash /\ Lit(line, 2, "/") # 0 THEN 3 ELSE 2
        N == {j \in a..Len(line) : ~IsAlnum(At(line, j))}
    IN IF Lit(line, 1, "<") = 0 \/ N = {} \/ SetMin(N) = a \/ At(line, SetMin(N)) # ">"
       THEN 0 ELSE SetMin(N)

\* r"^<([A-Za-z0-9]+)>(.*?)</\1>$"
IsInlineTag(line) ==
    LET e == LeadingTag(line, FALSE)
        close == "</" \o SubSeq(line, 2, e - 1) \o ">"
    IN e # 0 /\ EndsWith(line, close) /\ Len(line) >= e + Len(close)

\* r"(\[\s*[Xx]\s*\]|\[\s*\])" at position p: the position after the marker, 0 for no match
MarkerAt(line, p) ==
    LET g == WsStar(line, Lit(line, p, "["))
        x == IF g # 0 /\ g <= Len(line) /\ At(line, g) \in {"X", "x"}
             THEN Lit(line, WsStar(line, g + 1), "]") ELSE 0
    IN IF x # 0 THEN x ELSE Lit(line, g, "]")

\* TypeRow with the colon split tried ahead of the checkbox pattern
TypeRow_colon_first(line) ==
    LET e == LeadingTag(line, FALSE)
        P == {p \in 1..Len(line) : MarkerAt(line, p) # 0}
        c == Find(line, ":")
    IN IF IsInlineTag(line)
       THEN Some([Field |-> SubSeq(line, 2, e - 1),
                  Value |-> strip(SubSeq(line, e + 1, Len(line) - (e + 1)))])
       ELSE IF LeadingTag(line, TRUE) # 0 THEN None
       ELSE IF c # 0
            THEN Some([Field |-> strip(SubSeq(line, 1, c - 1)),
                       Value |-> strip(SubSeq(line, c + 1, Len(line)))])
       ELSE IF P # {}
            THEN LET field == RStripSet(strip(SubSeq(line, 1, SetMin(P) - 1)), {":"})
                     marker == SubSeq(line, SetMin(P), MarkerAt(line, SetMin(P)) - 1)
                 IN Some([Field |-> IF field # "" THEN field ELSE "_checkbox",
                          Value |-> IF Contains(Upper(marker), "X") THEN "Yes" ELSE "No"])
       ELSE Some([Field |-> "_text", Value |-> line])

\* the row of one stripped, non-empty line of the block; None for a discarded line
TypeRow(line) ==
    LET e == LeadingTag(line, FALSE)
        P == {p \in 1..Len(line) : MarkerAt(line, p) # 0}
        c == Find(line, ":")
    IN IF IsInlineTag(line)
       THEN Some([Field |-> SubSeq(line, 2, e - 1),
                  Value |-> strip(SubSeq(line, e + 1, Len(line) - (e + 1)))])
       ELSE IF LeadingTag(line, TRUE) # 0 THEN None
       ELSE IF P # {}
            THEN LET field == RStripSet(strip(SubSeq(line, 1, SetMin(P) - 1)), {":"})
                     marker == SubSeq(line, SetMin(P), MarkerAt(line, SetMin(P)) - 1)
                 IN Some([Field |-> IF field # "" THEN field ELSE "_checkbox",
                          Value |-> IF Contains(Upper(marker), "X") THEN "Yes" ELSE "No"])
       ELSE IF c # 0
            THEN Some([Field |-> strip(SubSeq(line, 1, c - 1)),
                       Value |-> strip(SubSeq(line, c + 1, Len(line)))])
       ELSE Some([Field |-> "_text", Value |-> line])

RECURSIVE TypeRows(_)
TypeRows(lines) ==
    IF lines = <<>> THEN <<>>
    ELSE (IF strip(Head(lines)) = "" THEN <<>> ELSE TypeRow(strip(Head(lines))))
             \o TypeRows(Tail(lines))

parse_to_rows(block) == TypeRows(splitlines(block))

(***************************************************************************)
(* FilingDataResolver                                                      *)
(***************************************************************************)
\* the character classes of the parse_field patterns, as re.IGNORECASE reads them
InClass(cls, c) ==
    CASE cls = "d"  -> IsDigit(c)                       \* \d
      [] cls = "d-" -> IsDigit(c) \/ c = "-"            \* [0-9\-]
      [] cls = "w-" -> IsAlnum(c) \/ c = "-"            \* [A-Z0-9\-]
      [] cls = "a"  -> IsAlnum(c) /\ ~IsDigit(c)        \* [A-Z]
      [] OTHER      -> c # "" /\ c # "\n"               \* . and [^\n]

\* the end of the greedy run of cls at position g, of at most hi characters (0: no limit)
RunEnd(t, g, cls, hi) ==
    SetMin({j \in g..(Len(t) + 1) :
               j = Len(t) + 1 \/ ~InClass(cls, At(t, j)) \/ (hi # 0 /\ j = g + hi)})

\* where group 1 ends when it matches at position g, 0 when it does not:
\* (cls{lo,hi}), or (\d{5}(?:-\d{4})?) for the class "zip"
GroupEnd(t, g, cls, lo, hi) ==
    IF g = 0 THEN 0
    ELSE IF cls = "zip"
    THEN (IF DigitsN(t, Lit(t, DigitsN(t, g, 5), "-"), 4) # 0
          THEN DigitsN(t, Lit(t, DigitsN(t, g, 5), "-"), 4) ELSE DigitsN(t, g, 5))
    ELSE IF RunEnd(t, g, cls, hi) - g < lo THEN 0 ELSE RunEnd(t, g, cls, hi)

\* m.group(1).strip() for a match of the group at position g, None when it does not match
GroupAt(t, g, cls, lo, hi) ==
    IF GroupEnd(t, g, cls, lo, hi) = 0 THEN None
    ELSE Some(strip(SubSeq(t, g, GroupEnd(t, g, cls, lo, hi) - 1)))

\* parse_field for the patterns of the shape r"LABEL:\s*(cls{lo,hi})"
parse_field(t, label, cls, lo, hi) ==
    LET S == {i \in 1..Len(t) : GroupAt(t, WsStar(t, LitI(t, i, label)), cls, lo, hi) # None}
    IN IF S = {} THEN ""
       ELSE GroupAt(t, WsStar(t, LitI(t, SetMin(S), label)), cls, lo, hi)[1]

\* r"STANDARD INDUSTRIAL CLASSIFICATION:\s*.*\[(\d+)\]": the last bracketed
\* number on the line the label's value starts on
SicBracketAt(t, i) ==
    LET g == WsStar(t, LitI(t, i, "STANDARD INDUSTRIAL CLASSIFICATION:"))
        B == {b \in g..RunEnd(t, g, ".", 0) :
                 g # 0 /\ Lit(t, b, "[") # 0 /\ RunEnd(t, b + 1, "d", 0) > b + 1
                 /\ Lit(t, RunEnd(t, b + 1, "d", 0), "]") # 0}
    IN IF g = 0 \/ B = {} THEN None
       ELSE LET b == CHOOSE x \in B : \A y \in B : y <= x
            IN Some(SubSeq(t, b + 1, RunEnd(t, b + 1, "d", 0) - 1))

sic_code(t) ==
    LET S == {i \in 1..Len(t) : SicBracketAt(t, i) # None}
    IN IF S # {} THEN SicBracketAt(t, SetMin(S))[1] ELSE parse_field(t, "SIC:", "d", 1, 0)

\* r"BUSINESS ADDRESS:.*?[\r\n]+\s*KEY:\s*(group)" at position i; with lineRest
\* FALSE the pattern is r"BUSINESS ADDRESS:\s*[\r\n]+\s*KEY:\s*(group)"
AddressPartAt(t, i, key, cls, lo, hi, lineRest) ==
    LET a == LitI(t, i, "BUSINESS ADDRESS:")
        stop == IF lineRest THEN RunEnd(t, a, ".", 0) ELSE WsStar(t, a)
        P == {p \in a..stop : p <= Len(t) /\ At(t, p) \in {"\r", "\n"}
                 /\ GroupAt(t, WsStar(t, LitI(t, WsStar(t, p), key)), cls, lo, hi) # None}
    IN IF a = 0 \/ P = {} THEN None
       ELSE GroupAt(t, WsStar(t, LitI(t, WsStar(t, SetMin(P)), key)), cls, lo, hi)

address_part(t, key, cls, lo, hi, lineRest) ==
    LET S == {i \in 1..Len(t) : AddressPartAt(t, i, key, cls, lo, hi, lineRest) # None}
    IN IF S = {} THEN "" ELSE AddressPartAt(t, SetMin(S), key, cls, lo, hi, lineRest)[1]

compose_business_address(t) ==
    JoinWith(", ", SelectSeq(<<address_part(t, "STREET 1:", ".", 1, 0, FALSE),
                               address_part(t, "CITY:", ".", 1, 0, TRUE),
                               address_part(t, "STATE:", "a", 2, 2, TRUE),
                               address_part(t, "ZIP:", "zip", 0, 0, TRUE)>>,
                             LAMBDA x : x # ""))

FilingRow(f, v) == [Field |-> f, Value |-> v]

\* FilingDataResolver.parse
FilingDataResolver_parse(t) ==
    << FilingRow("Accession_Number", parse_field(t, "ACCESSION NUMBER:", "d-", 1, 0)),
       FilingRow("Submission_Type", parse_field(t, "CONFORMED SUBMISSION TYPE:", "w-", 1, 0)),
       FilingRow("Period_of_Report", parse_field(t, "CONFORMED PERIOD OF REPORT:", "d", 8, 8)),
       FilingRow("Filed_Date", parse_field(t, "FILED AS OF DATE:", "d", 8, 8)),
       FilingRow("Filer_Name", parse_field(t, "COMPANY CONFORMED NAME:", ".", 1, 0)),
       FilingRow("CIK", parse_field(t, "CENTRAL INDEX KEY:", "d", 1, 0)),
       FilingRow("SIC", sic_code(t)),
       FilingRow("IRS_Number", parse_field(t, "IRS NUMBER:", "d", 1, 0)),
       FilingRow("State_of_Incorporation", parse_field(t, "STATE OF INCORPORATION:", "a", 2, 2)),
       FilingRow("Fiscal_Year_End", parse_field(t, "FISCAL YEAR END:", "d", 4, 4)),
       FilingRow("Business_Address", compose_business_address(t)),
       FilingRow("Business_Phone", parse_field(t, "BUSINESS PHONE:", ".", 1, 0)),
       FilingRow("SEC_File_Number", parse_field(t, "SEC FILE NUMBER:", "d-", 1, 0)),
       FilingRow("Film_Number", parse_field(t, "FILM NUMBER:", "d", 1, 0)),
       FilingRow("Former_Name", parse_field(t, "FORMER CONFORMED NAME:", ".", 1, 0)),
       FilingRow("Former_Name_Change_Date", parse_field(t, "DATE OF NAME CHANGE:", "d", 8, 8)) >>

(***************************************************************************)
(* InfoTableExtractor.to_dataframe, WorkbookWriter.write                   *)
(***************************************************************************)
\* None when pandas is not installed; the frame keeps the rows, whose keys are
\* the listed columns
to_dataframe(info, pandas) == IF pandas THEN Some(info) ELSE None

Sheet(name, data) == <<[name |-> name, rows |-> data]>>

\* what reaches the disk: the sheets of the workbook (excel) or the files of the
\* CSV fallback taken when the workbook cannot be written
write(out_xlsx_path, df, filing, type_block, excel) ==
    [path |-> out_xlsx_path,
     excel |-> excel,
     sheets |-> (IF df # None THEN Sheet("InfoTable", df[1]) ELSE <<>>)
                \o (IF filing # <<>> THEN Sheet("FilingData", filing) ELSE <<>>)
                \o (IF type_block # <<>> THEN Sheet("13F-HR", type_block) ELSE <<>>)]

(***************************************************************************)
(* Extractor13FHR.run                                                      *)
(***************************************************************************)
RunHeader ==
    "<SEC-HEADER>\nACCESSION NUMBER:\t\t0002012383-24-000002\n"
        \o "CONFORMED PERIOD OF REPORT:\t20240331\nFILED AS OF DATE:\t\t20240514\n"
        \o "\tBUSINESS ADDRESS:\t\n\t\tSTREET 1:\t\t1 MAIN ST\n\t\tZIP:\t\t10001-1234\n"
        \o "</SEC-HEADER>\n"
RunHeaders == {"", RunHeader, "<periodOfReport>13-01-2024</periodOfReport>\n"}
RunTypeBlocks == {"", "<TYPE>13F-HR\nCheck here if Amendment [ ]\n<cik>0002012383</cik>\nName: ACME\n"}
\* a row element whose cusip is never closed: the markup is not a tree
BrokenRow == "<infoTable><cusip>1</infoTable>"
RunRowElements == {
    "<infoTable><nameOfIssuer>ACME</nameOfIssuer><cusip>000360206</cusip><value>1,234</value></infoTable>\n",
    "<infoTable><cusip> 12 </cusip><value>abc</value><otherManager> </otherManager></infoTable>",
    BrokenRow }
RunTables ==
    {"<informationTable xmlns=\"" \o INFORMATION_TABLE_NS \o "\">\n" \o Join(ss) \o "</informationTable>" :
        ss \in SeqsUpTo(RunRowElements, MaxRunRows)}
RunTableParts ==
    {""} \cup {x \o "\n" : x \in RunTables}
         \cup {"<TYPE>INFORMATION TABLE\n<FILENAME>form13fInfoTable.xml\n<TEXT>\n" \o x \o "\n</TEXT>\n" :
                  x \in RunTables}
RunDocs == {h \o b \o x : h \in RunHeaders, b \in RunTypeBlocks, x \in RunTableParts}

InitRun ==
    /\ text \in RunDocs /\ pc = "resolve_date" /\ result = <<>>
    /\ HeaderIdle /\ RunIdle /\ ScrapeIdle

Fail(e) == pc' = "failed" /\ result' = e

ResolveDate ==
    /\ pc = "resolve_date"
    /\ \E today \in Todays, padYear \in BOOLEAN :
         LET d == parse_date(text, today, padYear)
         IN IF Raised(d)
            THEN Fail(d) /\ UNCHANGED date_str
            ELSE date_str' = d[2] /\ pc' = "extract_header" /\ UNCHANGED result
    /\ UNCHANGED <<text, hdrVars, filing_data_rows, info_rows, df_infotable, type_rows, written, scrVars>>

\* ExtractHeader with the header block made mandatory
ExtractHeader_required ==
    /\ pc = "extract_header"
    /\ LET header_block == header_extract_block(text)
       IN IF header_block = None
          THEN Fail(Raise("BlockNotFound")) /\ UNCHANGED filing_data_rows
          ELSE /\ filing_data_rows' = FilingDataResolver_parse(header_block[1])
               /\ pc' = "extract_infotable"
               /\ UNCHANGED result
    /\ UNCHANGED <<text, hdrVars, date_str, info_rows, df_infotable, type_rows, written, scrVars>>

ExtractHeader ==
    /\ pc = "extract_header"
    /\ LET header_block == header_extract_block(text)
       IN filing_data_rows' = IF header_block # None /\ header_block # Some("")
                              THEN FilingDataResolver_parse(header_block[1]) ELSE <<>>
    /\ pc' = "extract_infotable"
    /\ UNCHANGED <<text, result, hdrVars, date_str, info_rows, df_infotable, type_rows, written, scrVars>>

ExtractInfoTable_lenient ==
    /\ pc = "extract_infotable"
    /\ info_rows' = <<>>
    /\ \E pandas \in BOOLEAN : df_infotable' = to_dataframe(info_rows', pandas)
    /\ pc' = "extract_type_block"
    /\ UNCHANGED <<text, result, hdrVars, date_str, filing_data_rows, type_rows, written, scrVars>>

ExtractInfoTable ==
    /\ pc = "extract_infotable"
    /\ LET xml == extract_xml(text)
           parsed == IF xml # None THEN parse_rows(xml[1]) ELSE Return(<<>>)
       IN IF Raised(parsed)
          THEN Fail(parsed) /\ UNCHANGED <<info_rows, df_infotable>>
          ELSE /\ info_rows' = parsed[2]
               /\ \E pandas \in BOOLEAN : df_infotable' = to_dataframe(info_rows', pandas)
               /\ pc' = "extract_type_block"
               /\ UNCHANGED result
    /\ UNCHANGED <<text, hdrVars, date_str, filing_data_rows, type_rows, written, scrVars>>

ExtractTypeBlock ==
    /\ pc = "extract_type_block"
    /\ LET type_block == type_extract_block(text)
       IN type_rows' = IF type_block # None THEN parse_to_rows(type_block[1]) ELSE <<>>
    /\ pc' = "write"
    /\ UNCHANGED <<text, result, hdrVars, date_str, filing_data_rows, info_rows, df_infotable, written, scrVars>>

WriteWorkbook ==
    /\ pc = "write"
    /\ \E excel \in {b \in BOOLEAN : b => df_infotable # None} :
         written' = Some(write(date_str \o ".xlsx", df_infotable, filing_data_rows, type_rows, excel))
    /\ result' = Return(date_str \o ".xlsx")
    /\ pc' = "done"
    /\ UNCHANGED <<text, hdrVars, date_str, filing_data_rows, info_rows, df_infotable, type_rows, scrVars>>

NextRun == ResolveDate \/ ExtractHeader \/ ExtractInfoTable \/ ExtractTypeBlock \/ WriteWorkbook
SpecRun == InitRun /\ [][NextRun]_vars

\* C3 (as the specification states it): a run whose document has no holdings
\* table under either location pattern, or whose table has zero rows, does not
\* complete and leaves nothing on disk.
C3_NoTableNoArtifact ==
    (extract_xml(text) = None \/ info_rows = <<>>) => (pc # "done" /\ written = None)

\* C4: table parsing is all-or-nothing.  Once the table step of a run is past,
\* info_rows has one row for every row element of the located markup, in order,
\* a field that is blank or not a number having left its row in place with None
\* in that field; a run fails in the table step only on markup that is not a
\* tree, and a run that failed there has neither rows nor anything written.
C4_AllOrNothing ==
    LET xml == extract_xml(text)
    IN /\ (pc \in {"extract_type_block", "write", "done"} /\ xml # None) =>
             /\ Len(info_rows) = Len(RowStarts(xml[1]))
             /\ \A k \in 1..Len(info_rows) :
                   /\ info_rows[k].cusip = TagText(RowSpan(xml[1], k), "cusip")
                   /\ TagText(RowSpan(xml[1], k), "value") = "abc"
                         => info_rows[k].value_usd_quarter_end = None
       /\ result = Raise("ParseError") =>
             /\ pc = "failed" /\ xml # None /\ Contains(xml[1], BrokenRow)
             /\ info_rows = <<>> /\ df_infotable = None /\ written = None
       /\ written # None => (xml = None \/ ~Contains(xml[1], BrokenRow))

\* a complete row followed by a row that is not well formed: the run has
\* failed, no row was kept and nothing was written
C4_Witness ==
    /\ pc = "failed" /\ result = Raise("ParseError")
    /\ extract_xml(text) # None
    /\ Len(RowStarts(extract_xml(text)[1])) = 2
    /\ TagText(RowSpan(extract_xml(text)[1], 1), "cusip") = "000360206"
    /\ info_rows = <<>> /\ written = None

(***************************************************************************)
(* ClassTitleTransform                                                     *)
(***************************************************************************)
\* str.split(): the maximal runs of non-whitespace characters
RECURSIVE split(_)
split(s) ==
    IF LStripSet(s, WsChars) = "" THEN <<>>
    ELSE LET u == LStripSet(s, WsChars)
             e == SetMin({j \in 1..(Len(u) + 1) : j = Len(u) + 1 \/ IsWs(At(u, j))})
         IN <<SubSeq(u, 1, e - 1)>> \o split(SubSeq(u, e, Len(u)))

\* normalize_title without the split and join: upper case only
normalize_title_upper_only(title) == Upper(title)

\* ' '.join(str(title).upper().split())
normalize_title(title) == JoinWith(" ", split(Upper(title)))

StartsWith(s, pre) == Len(s) >= Len(pre) /\ SubSeq(s, 1, Len(pre)) = pre
AnyIn(t, subs) == \E s \in subs : Contains(t, s)

\* any(pattern in title_norm for pattern in common_patterns)
CommonStock(t) ==
    AnyIn(t, {"COM STK", "COM SHS", "COMMON STOCK", "COMMON SHARES", "COMMON",
              "COM NEW", "COM PAR", "COM NPV", "COM UNIT", "ORDINARY"})
\* 'CL x' in title_norm or 'CLASS x' in title_norm or 'SER x' in title_norm
ClassMark(t, x) == AnyIn(t, {"CL " \o x, "CLASS " \o x, "SER " \o x})

\* the categories of _categorize_single in the order its tests are written
Categories == <<
    "Expiring Security - Rights & Warrants",
    "Target Maturity Bond ETF",
    "Fixed Income Note",
    "Common Stock - Class A",
    "Common Stock - Class B",
    "Common Stock - Class C",
    "Common Stock",
    "Preferred Stock",
    "American Depositary Receipt",
    "Partnership Unit",
    "US Treasury Security",
    "Municipal Bond ETF",
    "High Yield Bond ETF",
    "Investment Grade Bond ETF",
    "Short Term Bond ETF",
    "Intermediate Term Bond ETF",
    "Long Term Bond ETF",
    "Inflation Protected Bond ETF",
    "ESG/Sustainable Equity ETF",
    "Asia Pacific Equity ETF",
    "European Equity ETF",
    "Latin America Equity ETF",
    "Emerging Markets Equity ETF",
    "Technology Sector ETF",
    "Healthcare Sector ETF",
    "Financial Sector ETF",
    "Energy Sector ETF",
    "Industrial Sector ETF",
    "Consumer Discretionary Sector ETF",
    "Consumer Staples Sector ETF",
    "Utilities Sector ETF",
    "Materials Sector ETF",
    "Communication Services Sector ETF",
    "Real Estate Equity ETF",
    "Dividend Focused Equity ETF",
    "Growth Equity ETF",
    "Value Equity ETF",
    "Momentum Equity ETF",
    "Low Volatility Equity ETF",
    "Quality Equity ETF",
    "US Large Cap Equity ETF",
    "US Mid Cap Equity ETF",
    "US Small Cap Equity ETF",
    "International Developed Markets Equity ETF",
    "Fixed Income Bond ETF",
    "Commodity ETF",
    "Equity Security",
    "Exchange Traded Fund",
    "Fixed Income Security" >>

\* the test that guards the k-th return of _categorize_single, on the normalized title
RuleHolds(k, t) ==
    CASE k = 1 -> Contains(t, "*W EXP") \/ (Contains(t, "RIGHT") /\ ~Contains(t, "99/99"))
      [] k = 2 -> Contains(t, "IBOND")
      [] k = 3 -> StartsWith(t, "NOTE ")
      [] k = 4 -> CommonStock(t) /\ ClassMark(t, "A")
      [] k = 5 -> CommonStock(t) /\ ClassMark(t, "B")
      [] k = 6 -> CommonStock(t) /\ ClassMark(t, "C")
      [] k = 7 -> CommonStock(t)
      [] k = 8 -> AnyIn(t, {"PFD", "PREF", "PREFERRED"})
      [] k = 9 -> AnyIn(t, {"ADR", "ADS", "SPON"})
      [] k = 10 -> StartsWith(t, "UNIT") \/ (Contains(t, "UNIT") /\ Contains(t, "LP"))
      [] k = 11 -> AnyIn(t, {"TREASURY", "TREAS", "T-BILL"})
      [] k = 12 -> AnyIn(t, {"MUNI", "MUNICIPAL"})
      [] k = 13 -> AnyIn(t, {"HIGH YIELD", "HIGH YLD", "HI YLD"})
      [] k = 14 -> AnyIn(t, {"INVT GR", "INVESTMENT GRADE", "INV GR"})
      [] k = 15 -> AnyIn(t, {"SHORT TERM", "SHORT-TERM", "SHRT", "SHORT DUR"})
      [] k = 16 -> AnyIn(t, {"INTERMEDIATE", "INTERMED", "INT-TERM"})
      [] k = 17 -> AnyIn(t, {"LONG TERM", "LONG-TERM", "LT ", "20+", "25+"})
      [] k = 18 -> Contains(t, "TIPS") \/ (Contains(t, "INFLATION") /\ Contains(t, "ETF"))
      [] k = 19 -> AnyIn(t, {"ESG", "SUSTAINABLE"}) \/ (Contains(t, "CLEAN") /\ Contains(t, "ETF"))
      [] k = 20 -> AnyIn(t, {"CHINA", "ASIA", "PACIFIC", "HONG KONG", "TAIWAN", "JAPAN", "INDIA", "KOREA"})
      [] k = 21 -> AnyIn(t, {"EUROPE", "EURO", "EAFE", "UK", "GERMANY", "FRANCE", "SPAIN", "ITALY"})
      [] k = 22 -> AnyIn(t, {"LATIN", "BRAZIL", "MEXICO", "CHILE"})
      [] k = 23 -> AnyIn(t, {"EMERG", "EM MKT", "EM MK"})
      [] k = 24 -> AnyIn(t, {"TECH", "SEMICONDUCTOR", "SOFTWARE", "CYBER", "CLOUD", "AI", "ARTIFICIAL"})
      [] k = 25 -> AnyIn(t, {"HEALTH", "PHARMA", "BIOTECH", "MEDICAL"})
      [] k = 26 -> AnyIn(t, {"FINANC", "BANK", "BK ETF", "INSURANCE"})
      [] k = 27 -> AnyIn(t, {"ENERGY", "OIL", "GAS"})
      [] k = 28 -> AnyIn(t, {"INDUST", "AEROSPACE", "DEFENSE"})
      [] k = 29 -> AnyIn(t, {"CONSUM DIS", "CONSUMER DIS"})
      [] k = 30 -> AnyIn(t, {"CONSUM STP", "CONSUMER STP", "CONSUM STAPLE"})
      [] k = 31 -> Contains(t, "UTIL") /\ Contains(t, "ETF")
      [] k = 32 -> Contains(t, "MATERIAL") \/ (Contains(t, "METAL") /\ Contains(t, "ETF"))
      [] k = 33 -> Contains(t, "COMM") /\ Contains(t, "SVC")
      [] k = 34 -> AnyIn(t, {"REAL EST", "REIT"})
      [] k = 35 -> Contains(t, "DIV") /\ Contains(t, "ETF")
      [] k = 36 -> AnyIn(t, {"GROW", "GRW", "GWT"}) /\ Contains(t, "ETF")
      [] k = 37 -> AnyIn(t, {"VALUE", "VAL", "VL "}) /\ Contains(t, "ETF")
      [] k = 38 -> AnyIn(t, {"MOMENT", "MOMNT"}) /\ Contains(t, "ETF")
      [] k = 39 -> AnyIn(t, {"LOW VOL", "MIN VOL"}) /\ Contains(t, "ETF")
      [] k = 40 -> Contains(t, "QUAL") /\ Contains(t, "ETF")
      [] k = 41 -> AnyIn(t, {"LARGE CAP", "LRG CAP", "LCAP", "MEGA CAP", "S&P 500", "S&P500", "RUSSELL 1000"})
      [] k = 42 -> AnyIn(t, {"MID CAP", "MDCP", "MIDCAP", "S&P 400", "RUSSELL MID"})
      [] k = 43 -> AnyIn(t, {"SMALL CAP", "SML CAP", "SMCP", "SMLCP", "S&P 600", "RUSSELL 2000"})
      [] k = 44 -> AnyIn(t, {"INTL", "INTERNATIONAL", "GLOBAL", "WORLD", "DEVELOPED"}) /\ Contains(t, "ETF")
      [] k = 45 -> AnyIn(t, {"BOND", "BD ETF", "CORP BD", "AGGREGATE"}) /\ Contains(t, "ETF")
      [] k = 46 -> AnyIn(t, {"GOLD", "SILVER", "COMMODITY", "METAL", "PLATINUM", "PALLADIUM"})
      [] k = 47 -> AnyIn(t, {"SHS", "SHARES", "STK", "STOCK", "CAP STK"})
      [] k = 48 -> AnyIn(t, {"ETF", "INDEX", "FUND"})
      [] k = 49 -> AnyIn(t, {"BOND", "NOTE", "DEBT", "DEBENTURE"})

\* _categorize_single with the fund catch-all tested ahead of the sector tests
categorize_single_etf_first(title) ==
    IF title = None THEN "Unclassified Security"
    ELSE LET t == normalize_title(title[1]) IN
         IF RuleHolds(1, t) THEN Categories[1]
         ELSE IF RuleHolds(2, t) THEN Categories[2]
         ELSE IF RuleHolds(3, t) THEN Categories[3]
         ELSE IF CommonStock(t)
         THEN (IF ClassMark(t, "A") THEN Categories[4]
               ELSE IF ClassMark(t, "B") THEN Categories[5]
               ELSE IF ClassMark(t, "C") THEN Categories[6]
               ELSE Categories[7])
         ELSE IF RuleHolds(8, t) THEN Categories[8]
         ELSE IF RuleHolds(9, t) THEN Categories[9]
         ELSE IF RuleHolds(10, t) THEN Categories[10]
         ELSE IF RuleHolds(11, t) THEN Categories[11]
         ELSE IF RuleHolds(12, t) THEN Categories[12]
         ELSE IF RuleHolds(13, t) THEN Categories[13]
         ELSE IF RuleHolds(14, t) THEN Categories[14]
         ELSE IF RuleHolds(15, t) THEN Categories[15]
         ELSE IF RuleHolds(16, t) THEN Categories[16]
         ELSE IF RuleHolds(17, t) THEN Categories[17]
         ELSE IF RuleHolds(18, t) THEN Categories[18]
         ELSE IF RuleHolds(19, t) THEN Categories[19]
         ELSE IF RuleHolds(20, t) THEN Categories[20]
         ELSE IF RuleHolds(21, t) THEN Categories[21]
         ELSE IF RuleHolds(22, t) THEN Categories[22]
         ELSE IF RuleHolds(23, t) THEN Categories[23]
         ELSE IF RuleHolds(48, t) THEN Categories[48]
         ELSE IF RuleHolds(24, t) THEN Categories[24]
         ELSE IF RuleHolds(25, t) THEN Categories[25]
         ELSE IF RuleHolds(26, t) THEN Categories[26]
         ELSE IF RuleHolds(27, t) THEN Categories[27]
         ELSE IF RuleHolds(28, t) THEN Categories[28]
         ELSE IF RuleHolds(29, t) THEN Categories[29]
         ELSE IF RuleHolds(30, t) THEN Categories[30]
         ELSE IF RuleHolds(31, t) THEN Categories[31]
         ELSE IF RuleHolds(32, t) THEN Categories[32]
         ELSE IF RuleHolds(33, t) THEN Categories[33]
         ELSE IF RuleHolds(34, t) THEN Categories[34]
         ELSE IF RuleHolds(35, t) THEN Categories[35]
         ELSE IF RuleHolds(36, t) THEN Categories[36]
         ELSE IF RuleHolds(37, t) THEN Categories[37]
         ELSE IF RuleHolds(38, t) THEN Categories[38]
         ELSE IF RuleHolds(39, t) THEN Categories[39]
         ELSE IF RuleHolds(40, t) THEN Categories[40]
         ELSE IF RuleHolds(41, t) THEN Categories[41]
         ELSE IF RuleHolds(42, t) THEN Categories[42]
         ELSE IF RuleHolds(43, t) THEN Categories[43]
         ELSE IF RuleHolds(44, t) THEN Categories[44]
         ELSE IF RuleHolds(45, t) THEN Categories[45]
         ELSE IF RuleHolds(46, t) THEN Categories[46]
         ELSE IF RuleHolds(47, t) THEN Categories[47]
         ELSE IF RuleHolds(49, t) THEN Categories[49]
         ELSE "Unclassified Security"

\* ClassTitleTransform._categorize_single; a missing title is None, a title Some(text)
categorize_single(title) ==
    IF title = None THEN "Unclassified Security"
    ELSE LET t == normalize_title(title[1]) IN
         IF RuleHolds(1, t) THEN Categories[1]
         ELSE IF RuleHolds(2, t) THEN Categories[2]
         ELSE IF RuleHolds(3, t) THEN Categories[3]
         ELSE IF CommonStock(t)
         THEN (IF ClassMark(t, "A") THEN Categories[4]
               ELSE IF ClassMark(t, "B") THEN Categories[5]
               ELSE IF ClassMark(t, "C") THEN Categories[6]
               ELSE Categories[7])
         ELSE IF RuleHolds(8, t) THEN Categories[8]
         ELSE IF RuleHolds(9, t) THEN Categories[9]
         ELSE IF RuleHolds(10, t) THEN Categories[10]
         ELSE IF RuleHolds(11, t) THEN Categories[11]
         ELSE IF RuleHolds(12, t) THEN Categories[12]
         ELSE IF RuleHolds(13, t) THEN Categories[13]
         ELSE IF RuleHolds(14, t) THEN Categories[14]
         ELSE IF RuleHolds(15, t) THEN Categories[15]
         ELSE IF RuleHolds(16, t) THEN Categories[16]
         ELSE IF RuleHolds(17, t) THEN Categories[17]
         ELSE IF RuleHolds(18, t) THEN Categories[18]
         ELSE IF RuleHolds(19, t) THEN Categories[19]
         ELSE IF RuleHolds(20, t) THEN Categories[20]
         ELSE IF RuleHolds(21, t) THEN Categories[21]
         ELSE IF RuleHolds(22, t) THEN Categories[22]
         ELSE IF RuleHolds(23, t) THEN Categories[23]
         ELSE IF RuleHolds(24, t) THEN Categories[24]
         ELSE IF RuleHolds(25, t) THEN Categories[25]
         ELSE IF RuleHolds(26, t) THEN Categories[26]
         ELSE IF RuleHolds(27, t) THEN Categories[27]
         ELSE IF RuleHolds(28, t) THEN Categories[28]
         ELSE IF RuleHolds(29, t) THEN Categories[29]
         ELSE IF RuleHolds(30, t) THEN Categories[30]
         ELSE IF RuleHolds(31, t) THEN Categories[31]
         ELSE IF RuleHolds(32, t) THEN Categories[32]
         ELSE IF RuleHolds(33, t) THEN Categories[33]
         ELSE IF RuleHolds(34, t) THEN Categories[34]
         ELSE IF RuleHolds(35, t) THEN Categories[35]
         ELSE IF RuleHolds(36, t) THEN Categories[36]
         ELSE IF RuleHolds(37, t) THEN Categories[37]
         ELSE IF RuleHolds(38, t) THEN Categories[38]
         ELSE IF RuleHolds(39, t) THEN Categories[39]
         ELSE IF RuleHolds(40, t) THEN Categories[40]
         ELSE IF RuleHolds(41, t) THEN Categories[41]
         ELSE IF RuleHolds(42, t) THEN Categories[42]
         ELSE IF RuleHolds(43, t) THEN Categories[43]
         ELSE IF RuleHolds(44, t) THEN Categories[44]
         ELSE IF RuleHolds(45, t) THEN Categories[45]
         ELSE IF RuleHolds(46, t) THEN Categories[46]
         ELSE IF RuleHolds(47, t) THEN Categories[47]
         ELSE IF RuleHolds(48, t) THEN Categories[48]
         ELSE IF RuleHolds(49, t) THEN Categories[49]
         ELSE "Unclassified Security"

\* the titles of the model: up to MaxWords words, joined by one of the separators
TitleWords == {"TECH", "SELECT", "ETF", "COMMON", "CL A", "RIGHT", "99/99", "Fund", "UTIL", " Bond\t"}
TitleSeps == {" ", " \t  "}
Titles == {JoinWith(sep, ws) : sep \in TitleSeps, ws \in SeqsUpTo(TitleWords, MaxWords)}

InitClassify ==
    /\ text \in {None} \cup {Some(t) : t \in Titles}
    /\ pc = "categorize" /\ result = <<>>
    /\ HeaderIdle /\ RunIdle /\ ScrapeIdle

Categorize ==
    /\ pc = "categorize"
    /\ result' = Return(categorize_single(text))
    /\ pc' = "done"
    /\ UNCHANGED <<text, hdrVars, runVars, scrVars>>

NextClassify == Categorize
SpecClassify == InitClassify /\ [][NextClassify]_vars

\* the sector tests of the cascade: Technology ... Real Estate
SectorRules == {k \in 1..Len(Categories) :
                  Contains(Categories[k], "Sector ETF") \/ Categories[k] = "Real Estate Equity ETF"}

\* C10: the classifier is an ordered decision list.  The category of a title is
\* that of the first test, in the order the tests are written, that holds on
\* the normalized title, and 'Unclassified Security' only when none holds; so
\* "TECH SELECT ETF" is 'Technology Sector ETF', and a title with ETF on which
\* a sector test holds is never the generic 'Exchange Traded Fund'.
C10_FirstMatchWins ==
    (pc = "done" /\ text # None) =>
        LET t == normalize_title(text[1])
            H == {k \in 1..Len(Categories) : RuleHolds(k, t)}
        IN /\ result = Return(IF H = {} THEN "Unclassified Security" ELSE Categories[SetMin(H)])
           /\ (t = "TECH SELECT ETF" => result = Return("Technology Sector ETF"))
           /\ (Contains(t, "ETF") /\ H \cap SectorRules # {})
                 => result # Return("Exchange Traded Fund")

\* the title of the example, written with runs of blanks, has been classified
C10_Witness ==
    /\ pc = "done" /\ text = Some("TECH \t  SELECT \t  ETF")
    /\ result = Return("Technology Sector ETF")

\* C11 (as the specification states it): a missing title is not given the
\* fallback category 'Unclassified Security'.
C11_NullStaysNull ==
    (pc = "done" /\ text = None) => result # Return("Unclassified Security")

\* a text is in normal form: no lower-case letter, no blank other than single
\* spaces between words
NormalForm(t) ==
    /\ Upper(t) = t
    /\ \A i \in 1..Len(t) : IsWs(At(t, i)) =>
          At(t, i) = " " /\ 1 < i /\ i < Len(t) /\ At(t, i + 1) # " "

\* C12: the classifier is invariant under normalization.  The normalized title
\* is upper case, trimmed and single-spaced, normalizing it again changes
\* nothing, and classifying it gives the category the title itself was given.
C12_NormalizationInvariant ==
    (pc = "done" /\ text # None) =>
        LET n == normalize_title(text[1])
        IN /\ NormalForm(n)
           /\ normalize_title(n) = n
           /\ result = Return(categorize_single(Some(n)))

\* a mixed-case title with runs of blanks inside and around it has been classified
C12_Witness ==
    /\ pc = "done" /\ text = Some(" Bond\t \t  Fund \t  ETF")
    /\ normalize_title(text[1]) = "BOND FUND ETF"
    /\ result = Return("Fixed Income Bond ETF")

(***************************************************************************)
(* TypeBlockScraper13FHR.parse_to_rows, line by line                       *)
(***************************************************************************)
TypeLines == {
    "Check here if Amendment [X]", "Check here if Amendment []", "Type: Amendment [ x ]",
    "Name: ACME", "<cik>0002012383</cik>", "<cik>", "</cik>", "<SEQUENCE>1",
    "free text", "", " \t", "[X]" }
TypeBlocks == {JoinWith("\n", ls) : ls \in SeqsUpTo(TypeLines, MaxTypeLines)}

InitTypeBlock ==
    /\ text \in TypeBlocks /\ pc = "parse_to_rows" /\ result = <<>>
    /\ HeaderIdle /\ RunIdle /\ ScrapeIdle

\* one pass of the loop over block.splitlines()
TypeLine ==
    /\ pc = "parse_to_rows"
    /\ line_no < Len(splitlines(text))
    /\ LET line == strip(splitlines(text)[line_no + 1])
       IN rows' = rows \o (IF line = "" THEN <<>> ELSE TypeRow(line))
    /\ line_no' = line_no + 1
    /\ UNCHANGED <<text, pc, result, section_stack, stack_depths, runVars, scrVars>>

EndOfTypeBlock ==
    /\ pc = "parse_to_rows"
    /\ line_no = Len(splitlines(text))
    /\ result' = Return(rows)
    /\ pc' = "done"
    /\ UNCHANGED <<text, hdrVars, runVars, scrVars>>

NextTypeBlock == TypeLine \/ EndOfTypeBlock
SpecTypeBlock == InitTypeBlock /\ [][NextTypeBlock]_vars

\* the line is a single tag and nothing else: <name> or </name>
IsBareTag(line) ==
    /\ Len(line) >= 3 /\ At(line, 1) = "<" /\ At(line, Len(line)) = ">"
    /\ LET name == SubSeq(line, IF At(line, 2) = "/" THEN 3 ELSE 2, Len(line) - 1)
       IN name # "" /\ \A i \in 1..Len(name) : IsAlnum(At(name, i))

\* where the first bracketed marker of the line starts, 0 when it has none
FirstMarker(line) == FirstOf({p \in 1..Len(line) : MarkerAt(line, p) # 0})

\* the checkbox row the claim describes for a line with a marker
CheckboxRow(line) ==
    LET label == RStripSet(strip(SubSeq(line, 1, FirstMarker(line) - 1)), {":"})
        inside == SubSeq(line, FirstMarker(line), MarkerAt(line, FirstMarker(line)) - 1)
    IN [Field |-> IF label = "" THEN "_checkbox" ELSE label,
        Value |-> IF Contains(inside, "X") \/ Contains(inside, "x") THEN "Yes" ELSE "No"]

C13_LineStep ==
    (pc = "parse_to_rows" /\ line_no' = line_no + 1) =>
        LET line == strip(splitlines(text)[line_no + 1])
        IN (line # "" /\ FirstMarker(line) # 0 /\ ~IsInlineTag(line) /\ LeadingTag(line, TRUE) = 0)
              => rows' = Append(rows, CheckboxRow(line))

C14_DropsOnlyBareTags ==
    (pc = "done" /\ Returned(result)) =>
        Len(result[2]) = Cardinality({i \in 1..Len(splitlines(text)) :
                             /\ strip(splitlines(text)[i]) # ""
                             /\ ~IsBareTag(strip(splitlines(text)[i]))})

(***************************************************************************)
(* Block location on documents put together from segments                  *)
(***************************************************************************)
StartMarker == "<TYPE>13F-HR"
EndMarker == "<TYPE>INFORMATION TABLE"
NamedPayload == "<informationTable>named</informationTable>"
NamedSection == "<FILENAME>form13fInfoTable.xml\n<TEXT>\n" \o NamedPayload \o "\n</TEXT>\n"
BarePayloads == {"<informationTable>b1</informationTable>", "<informationTable>b2</informationTable>"}
Segments ==
    {StartMarker \o "\n", StartMarker \o "\nName: ACME\n", EndMarker \o "\n", NamedSection,
     "<SEC-HEADER>\nh: 1\n</SEC-HEADER>\n"} \cup {b \o "\n" : b \in BarePayloads}
LocateDocs == {Join(ss) : ss \in SeqsUpTo(Segments, MaxSegs)}

InitLocate ==
    /\ text \in LocateDocs
    /\ pc \in {"extract_xml", "type_extract_block", "header_extract_block"}
    /\ result = <<>>
    /\ HeaderIdle /\ RunIdle /\ ScrapeIdle

ExtractXml ==
    /\ pc = "extract_xml" /\ result = <<>>
    /\ result' = Return(extract_xml(text))
    /\ UNCHANGED <<text, pc, hdrVars, runVars, scrVars>>

TypeExtractBlock ==
    /\ pc = "type_extract_block" /\ result = <<>>
    /\ result' = Return(type_extract_block(text))
    /\ UNCHANGED <<text, pc, hdrVars, runVars, scrVars>>

HeaderExtractBlock ==
    /\ pc = "header_extract_block" /\ result = <<>>
    /\ result' = Return(header_extract_block(text))
    /\ UNCHANGED <<text, pc, hdrVars, runVars, scrVars>>

NextLocate == ExtractXml \/ TypeExtractBlock \/ HeaderExtractBlock
SpecLocate == InitLocate /\ [][NextLocate]_vars

\* the bare payload that starts first in the text
FirstBare(t) ==
    CHOOSE b \in BarePayloads :
        Find(t, b) # 0 /\ \A c \in BarePayloads : Find(t, c) # 0 => Find(t, b) <= Find(t, c)

\* C15: table location is ordered by pattern, not by position.  When the text
\* has a section named form13fInfoTable.xml its payload is returned, also when
\* a bare informationTable element stands earlier in the text; without such a
\* section the first bare element is returned, and None when there is none.
C15_NamedBeforeBare ==
    (pc = "extract_xml" /\ Returned(result)) =>
        result[2] = IF Contains(text, NamedSection) THEN Some(NamedPayload)
                    ELSE IF \E b \in BarePayloads : Contains(text, b) THEN Some(FirstBare(text))
                    ELSE None

\* a bare element stands before the named section, and the named payload is returned
C15_Witness ==
    /\ pc = "extract_xml" /\ Returned(result)
    /\ \E b \in BarePayloads : Find(text, b) # 0 /\ Find(text, b) < Find(text, NamedSection)
    /\ result[2] = Some(NamedPayload)

\* the text between the end of the first start marker and the first end marker after it
Between(t) ==
    LET a == Find(t, StartMarker) + Len(StartMarker)
    IN IF FindFrom(t, EndMarker, a) = 0 THEN ""
       ELSE strip(SubSeq(t, a, FindFrom(t, EndMarker, a) - 1))

\* C17: the type block is the trimmed text between the end of the start marker
\* and the first end marker after it (no block when that text is empty); end
\* markers before the start marker do not count; without a start marker there
\* is no block.
C17_BlockBetweenMarkers ==
    (pc = "type_extract_block" /\ Returned(result)) =>
        /\ ~Contains(text, StartMarker) => result[2] = None
        /\ (Contains(text, StartMarker)
                /\ FindFrom(text, EndMarker, Find(text, StartMarker) + Len(StartMarker)) # 0)
              => result[2] = IF Between(text) = "" THEN None ELSE Some(Between(text))

\* an end marker stands before the start marker and another after the block
C17_Witness ==
    /\ pc = "type_extract_block" /\ Returned(result)
    /\ text = EndMarker \o "\n" \o StartMarker \o "\nName: ACME\n" \o EndMarker \o "\n"
    /\ result[2] = Some("Name: ACME")

\* the steps of a run that come after the given one
PastStep(step) ==
    CASE step = "extract_header" -> {"extract_infotable", "extract_type_block", "write", "done"}
      [] step = "extract_infotable" -> {"extract_type_block", "write", "done"}
      [] step = "extract_type_block" -> {"write", "done"}

\* C16: optional blocks degrade to empty results.  A document without a
\* SEC-HEADER block or without a 13F-HR type block gives an empty row set for
\* that block and no error: the run fails only on a date tag that is no date
\* or on table markup that is no tree, the holdings rows are those of the
\* located table, and the writer is handed the date and the rows.
C16_OptionalBlocksEmpty ==
    /\ (pc \in PastStep("extract_header") /\ header_extract_block(text) = None)
          => filing_data_rows = <<>>
    /\ (pc \in PastStep("extract_type_block") /\ type_extract_block(text) = None)
          => type_rows = <<>>
    /\ pc = "failed" =>
          \/ Contains(text, "<periodOfReport>13-01-2024</periodOfReport>") /\ Raised(result)
          \/ Contains(text, BrokenRow) /\ result = Raise("ParseError")
    /\ (pc \in PastStep("extract_infotable") /\ extract_xml(text) # None)
          => Len(info_rows) = Len(RowStarts(extract_xml(text)[1]))
    /\ pc = "done" =>
          /\ written # None /\ written[1].path = date_str \o ".xlsx"
          /\ df_infotable # None => written[1].sheets[1] = [name |-> "InfoTable", rows |-> info_rows]

\* a document with a table but neither block has been extracted and written
C16_Witness ==
    /\ pc = "done"
    /\ header_extract_block(text) = None /\ type_extract_block(text) = None
    /\ filing_data_rows = <<>> /\ type_rows = <<>>
    /\ Len(info_rows) = 2 /\ df_infotable # None
    /\ Len(written[1].sheets) = 1
    /\ result = Return(date_str \o ".xlsx")

(***************************************************************************)
(* class_title_transformer: the warrant-expiration pass                    *)
(***************************************************************************)
\* _WARRANT_PAT at position i: <<start, end>> of group 1, None when it does not
\* match there.  The first alternative [0-9]{2}/[0-9]{2}/[0-9]{2,4} also
\* matches the placeholder, so the second alternative is never the one taken.
WarrantAt(t, i) ==
    LET g == WsStar(t, LitI(t, WsStar(t, LitI(t, i, "*W")), "EXP"))
        y == Lit(t, DigitsN(t, Lit(t, DigitsN(t, g, 2), "/"), 2), "/")
        e == IF DigitsN(t, y, 4) # 0 THEN DigitsN(t, y, 4)
             ELSE IF DigitsN(t, y, 3) # 0 THEN DigitsN(t, y, 3)
             ELSE DigitsN(t, y, 2)
    IN IF e = 0 THEN None ELSE <<g, e - 1>>

\* parse_warrant_expiration: group 1 of the leftmost match, None for no match
parse_warrant_expiration(title) ==
    LET t == IF title = None THEN "" ELSE title[1]
        S == {i \in 1..Len(t) : WarrantAt(t, i) # None}
    IN IF S = {} THEN None
       ELSE Some(SubSeq(t, WarrantAt(t, SetMin(S))[1], WarrantAt(t, SetMin(S))[2]))

\* _to_iso_date
to_iso_date(mdy) ==
    LET p1 == Find(mdy, "/")
        p2 == FindFrom(mdy, "/", p1 + 1)
        mm == SubSeq(mdy, 1, p1 - 1)
        dd == SubSeq(mdy, p1 + 1, p2 - 1)
        yy == SubSeq(mdy, p2 + 1, Len(mdy))
    IN IF Count(mdy, "/") # 2 THEN mdy
       ELSE IF Len(yy) = 4 THEN yy \o "-" \o mm \o "-" \o dd
       ELSE mdy

\* normalize_class_title; a missing title is None, a title Some(text)
normalize_class_title(title) ==
    LET expiry == parse_warrant_expiration(title)
    IN IF title = None \/ title = Some("") THEN title
       ELSE IF expiry # None /\ expiry # Some("")
            THEN IF expiry[1] = "99/99/9999" THEN Some("Warrant (expiry unknown)")
                 ELSE Some("Warrant (expires " \o to_iso_date(expiry[1]) \o ")")
       ELSE title

WarrantParts == {"ABC ", "*W EXP ", "*w exp", "12/31/2025", "99/99/9999", "12/31/25", "01/15/202", "1/2/2025"}
WarrantTitles == {None} \cup {Some(Join(ps)) : ps \in SeqsUpTo(WarrantParts, MaxParts)}

InitWarrant ==
    /\ text \in WarrantTitles /\ pc = "normalize_class_title" /\ result = <<>>
    /\ HeaderIdle /\ RunIdle /\ ScrapeIdle

NormalizeClassTitle ==
    /\ pc = "normalize_class_title"
    /\ result' = Return(normalize_class_title(text))
    /\ pc' = "done"
    /\ UNCHANGED <<text, hdrVars, runVars, scrVars>>

NextWarrant == NormalizeClassTitle
SpecWarrant == InitWarrant /\ [][NextWarrant]_vars

\* YYYY-MM-DD
IsIsoDate(d) ==
    /\ Len(d) = 10 /\ At(d, 5) = "-" /\ At(d, 8) = "-"
    /\ \A i \in {1, 2, 3, 4, 6, 7, 9, 10} : IsDigit(At(d, i))

\* the output is 'Warrant (expires YYYY-MM-DD)'
IsExpiresIso(out) ==
    /\ out # None /\ Len(out[1]) = 28
    /\ SubSeq(out[1], 1, 17) = "Warrant (expires " /\ At(out[1], 28) = ")"
    /\ IsIsoDate(SubSeq(out[1], 18, 27))

\* C18 (as the specification states it): the pass has exactly three outcomes:
\* 'Warrant (expiry unknown)' for the marker with the placeholder date,
\* 'Warrant (expires YYYY-MM-DD)' for the marker with a date, and the
\* unchanged title for a title without the marker.
C18_ThreeOutcomes ==
    (pc = "done" /\ Returned(result)) =>
        /\ result[2] = text \/ result[2] = Some("Warrant (expiry unknown)") \/ IsExpiresIso(result[2])
        /\ text = Some("ABC *W EXP 12/31/2025") => result[2] = Some("Warrant (expires 2025-12-31)")
        /\ text = Some("ABC *W EXP 99/99/9999") => result[2] = Some("Warrant (expiry unknown)")
        /\ (text = None \/ ~Contains(Upper(text[1]), "*W")) => result[2] = text

\* C19 (as the specification states it): when the marker is found with a date
\* that is not the placeholder, the date of the output is in the form
\* YYYY-MM-DD, whatever the number of digits of the year.
C19_DateReformatted ==
    (pc = "done" /\ Returned(result) /\ parse_warrant_expiration(text) # None
        /\ parse_warrant_expiration(text) # Some("99/99/9999"))
      => IsExpiresIso(result[2])

(***************************************************************************)
(* Parser calls running concurrently, each over its own document.  Every   *)
(* variable a parser writes is a local of the call (rows, section_stack    *)
(* and the loop position), so each of text, pc, result, line_no,           *)
(* section_stack and rows holds one entry per call here, and a step of one *)
(* call is one pass of its loop.                                           *)
(***************************************************************************)
\* SECHeaderParser.parse_rows: section_stack after one pass of the loop
HdrStackAfter(stack, raw) ==
    IF IsOpenerLine(raw) THEN PushSection(stack, indent_level(raw), SectionName(raw))
    ELSE IF IsFieldLine(raw) THEN PopTo(stack, indent_level(raw))
    ELSE stack

\* SECHeaderParser.parse_rows: rows after one pass of the loop
HdrRowsAfter(stack, rs, raw) ==
    IF IsFieldLine(raw)
    THEN Append(rs, [section_path |-> section_path(PopTo(stack, indent_level(raw))),
                     field |-> FieldOf(raw), value |-> ValueOf(raw)])
    ELSE IF IsNoteLine(raw)
    THEN Append(rs, [section_path |-> section_path(stack), field |-> "_note",
                     value |-> HdrContent(raw)])
    ELSE rs

RECURSIVE HeaderRowsFrom(_, _, _)
\* the loop of SECHeaderParser.parse_rows run to its end over the lines left
HeaderRowsFrom(lines, stack, rs) ==
    IF lines = <<>> THEN rs
    ELSE HeaderRowsFrom(Tail(lines), HdrStackAfter(stack, Head(lines)),
                        HdrRowsAfter(stack, rs, Head(lines)))

\* SECHeaderParser.parse_rows, one call run alone
header_parse_rows(header_text) == HeaderRowsFrom(splitlines(header_text), <<>>, <<>>)

HEADER_PARSE == "SECHeaderParser.parse_rows"
TYPE_PARSE == "TypeBlockScraper13FHR.parse_to_rows"
TABLE_PARSE == "InfoTableExtractor.parse_rows"

\* the calls that may run side by side: the parser and its document
CallJobs ==
    {<<HEADER_PARSE, d>> : d \in {"A:\n\tX: 1\n", "B:\nnote\n\tY: 2\n", "X: 1\n"}}
    \cup {<<TYPE_PARSE, d>> : d \in {"Name: ACME\nCheck here if Amendment [X]", "<cik>\nfree text"}}
    \cup {<<TABLE_PARSE, d>> : d \in {
            "<informationTable xmlns=\"" \o INFORMATION_TABLE_NS \o "\">\n"
                \o "<infoTable><cusip> 12 </cusip><value>abc</value></infoTable>"
                \o "<infoTable/>" \o "</informationTable>",
            "<informationTable>\n<infoTable><cusip>1</infoTable></informationTable>"}}

InitCalls ==
    \E n \in 1..MaxCalls : \E js \in [1..n -> CallJobs] :
        /\ pc = [k \in 1..n |-> js[k][1]]
        /\ text = [k \in 1..n |-> js[k][2]]
        /\ result = [k \in 1..n |-> <<>>]
        /\ line_no = [k \in 1..n |-> 0]
        /\ section_stack = [k \in 1..n |-> <<>>]
        /\ rows = [k \in 1..n |-> <<>>]
        /\ stack_depths = <<>>
        /\ RunIdle /\ ScrapeIdle

\* call k is still in its loop
Running(k) == result[k] = <<>>

\* the sequence call k loops over
CallItems(k) ==
    IF pc[k] = TABLE_PARSE
    THEN (IF fromstring(text[k]) = None THEN <<>> ELSE findall(fromstring(text[k])))
    ELSE splitlines(text[k])

\* mutant: the section stack is one list all calls push to and pop from
CallHeaderLine_shared_stack(k) ==
    /\ pc[k] = HEADER_PARSE /\ Running(k) /\ line_no[k] < Len(CallItems(k))
    /\ LET raw == CallItems(k)[line_no[k] + 1]
       IN /\ section_stack' = [section_stack EXCEPT ![1] = HdrStackAfter(section_stack[1], raw)]
          /\ rows' = [rows EXCEPT ![k] = HdrRowsAfter(section_stack[1], rows[k], raw)]
    /\ line_no' = [line_no EXCEPT ![k] = line_no[k] + 1]
    /\ UNCHANGED <<text, pc, result, stack_depths, runVars, scrVars>>

\* one pass of the loop of SECHeaderParser.parse_rows in call k
CallHeaderLine(k) ==
    /\ pc[k] = HEADER_PARSE /\ Running(k) /\ line_no[k] < Len(CallItems(k))
    /\ LET raw == CallItems(k)[line_no[k] + 1]
       IN /\ section_stack' = [section_stack EXCEPT ![k] = HdrStackAfter(section_stack[k], raw)]
          /\ rows' = [rows EXCEPT ![k] = HdrRowsAfter(section_stack[k], rows[k], raw)]
    /\ line_no' = [line_no EXCEPT ![k] = line_no[k] + 1]
    /\ UNCHANGED <<text, pc, result, stack_depths, runVars, scrVars>>

\* one pass of the loop of TypeBlockScraper13FHR.parse_to_rows in call k
CallTypeLine(k) ==
    /\ pc[k] = TYPE_PARSE /\ Running(k) /\ line_no[k] < Len(CallItems(k))
    /\ LET line == strip(CallItems(k)[line_no[k] + 1])
       IN rows' = [rows EXCEPT ![k] = rows[k] \o (IF line = "" THEN <<>> ELSE TypeRow(line))]
    /\ line_no' = [line_no EXCEPT ![k] = line_no[k] + 1]
    /\ UNCHANGED <<text, pc, result, section_stack, stack_depths, runVars, scrVars>>

\* ET.fromstring raises in call k of InfoTableExtractor.parse_rows
CallTableParseError(k) ==
    /\ pc[k] = TABLE_PARSE /\ Running(k) /\ fromstring(text[k]) = None
    /\ result' = [result EXCEPT ![k] = Raise("ParseError")]
    /\ UNCHANGED <<text, pc, hdrVars, runVars, scrVars>>

\* one pass of the loop of InfoTableExtractor.parse_rows in call k
CallTableRow(k) ==
    /\ pc[k] = TABLE_PARSE /\ Running(k) /\ fromstring(text[k]) # None
    /\ line_no[k] < Len(CallItems(k))
    /\ rows' = [rows EXCEPT ![k] =
                   Append(rows[k], InfoRow(fromstring(text[k]), CallItems(k)[line_no[k] + 1]))]
    /\ line_no' = [line_no EXCEPT ![k] = line_no[k] + 1]
    /\ UNCHANGED <<text, pc, result, section_stack, stack_depths, runVars, scrVars>>

\* return rows in call k
CallReturns(k) ==
    /\ Running(k) /\ line_no[k] = Len(CallItems(k))
    /\ pc[k] = TABLE_PARSE => fromstring(text[k]) # None
    /\ result' = [result EXCEPT ![k] = Return(rows[k])]
    /\ UNCHANGED <<text, pc, hdrVars, runVars, scrVars>>

NextCalls ==
    \/ \E k \in DOMAIN pc : CallHeaderLine(k)
    \/ \E k \in DOMAIN pc : CallTypeLine(k)
    \/ \E k \in DOMAIN pc : CallTableParseError(k)
    \/ \E k \in DOMAIN pc : CallTableRow(k)
    \/ \E k \in DOMAIN pc : CallReturns(k)
SpecCalls == InitCalls /\ [][NextCalls]_vars

\* what a call of the parser op over the document doc returns when run alone
Alone(op, doc) ==
    IF op = HEADER_PARSE THEN Return(header_parse_rows(doc))
    ELSE IF op = TYPE_PARSE THEN Return(parse_to_rows(doc))
    ELSE parse_rows(doc)

\* C20: parser calls share no mutable state: however the loop passes of the
\* calls running side by side are interleaved, each call ends with exactly what
\* the same call gives when it runs alone over its document.
C20_CallsIndependent ==
    \A k \in DOMAIN pc : ~Running(k) => result[k] = Alone(pc[k], text[k])

\* a header call has returned rows under its own section while another header
\* call, started before it ended, is in the middle of its loop under a
\* different section
C20_Witness ==
    /\ Len(pc) = 2 /\ pc[1] = HEADER_PARSE /\ pc[2] = HEADER_PARSE
    /\ Running(1) /\ line_no[1] = 1 /\ section_stack[1] = <<"A">>
    /\ ~Running(2) /\ section_stack[2] = <<"B">>
    /\ result[2] = Alone(pc[2], text[2]) /\ Len(result[2][2]) = 2
    /\ result[2][2][2].section_path = "B"

(***************************************************************************)
(* Extractor13FHR.run: the order of its steps                              *)
(***************************************************************************)
\* one step of a run in the order the specification gives: after the date
\* comes the holdings table, and the header is not handled ahead of the table
C21_Step ==
    /\ (pc = "resolve_date" /\ pc' # "failed") => pc' = "extract_infotable"
    /\ pc = "extract_header" => pc' # "extract_infotable"

\* C21 (as the specification states it): in every run the report date is
\* resolved first, then the holdings table is located and parsed, then the
\* header block; the header block is never processed before the holdings table.
C21_TableBeforeHeader == [][C21_Step]_vars

(***************************************************************************)
(* scrape_edgar_links: _normalize_period and                               *)
(* FilingTextParser.extract_period_from_text                               *)
(***************************************************************************)
\* [-/]? and the like at position p: one character of C is taken when it is there
OptSep(s, p, C) == IF p # 0 /\ p <= Len(s) /\ At(s, p) \in C THEN p + 1 ELSE p

\* one character of C at position p
OneOf(s, p, C) == IF p # 0 /\ p <= Len(s) /\ At(s, p) \in C THEN p + 1 ELSE 0

IsAlpha(c) == c # "" /\ (IndexFrom(LowerChars, 1, c) # 0 \/ IndexFrom(UpperChars, 1, c) # 0)

\* r"(\d{4})[-/]?(\d{2})[-/]?(\d{2})" at position i: the three groups joined,
\* None when it does not match there
YmdAt(s, i) ==
    LET a == DigitsN(s, i, 4)
        b == OptSep(s, a, {"-", "/"})
        c == DigitsN(s, b, 2)
        d == OptSep(s, c, {"-", "/"})
        e == DigitsN(s, d, 2)
    IN IF e = 0 THEN None
       ELSE Some(SubSeq(s, i, a - 1) \o SubSeq(s, b, c - 1) \o SubSeq(s, d, e - 1))

\* r"(\d{2})[-/ ]([A-Za-z]{3})[-/ ](\d{4})" at position i: the three groups
DMonYAt(s, i) ==
    LET a == DigitsN(s, i, 2)
        b == OneOf(s, a, {"-", "/", " "})
        c == IF b # 0 /\ b + 2 <= Len(s) /\ \A k \in 0..2 : IsAlpha(At(s, b + k)) THEN b + 3 ELSE 0
        d == OneOf(s, c, {"-", "/", " "})
        e == DigitsN(s, d, 4)
    IN IF e = 0 THEN None
       ELSE <<SubSeq(s, i, a - 1), SubSeq(s, b, c - 1), SubSeq(s, d, e - 1)>>

\* %b of strptime: the month an abbreviation names (any case), 0 for none
MonthAbbrs == <<"JAN", "FEB", "MAR", "APR", "MAY", "JUN", "JUL", "AUG", "SEP", "OCT", "NOV", "DEC">>
MonthOf(abbr) == FirstOf({k \in 1..12 : MonthAbbrs[k] = Upper(abbr)})

\* _normalize_period; padYear: whether the C library pads a year below 1000 in %Y
normalize_period(period_str, padYear) ==
    LET s == strip(period_str)
        S == {i \in 1..Len(s) : YmdAt(s, i) # None}
        S2 == {i \in 1..Len(s) : DMonYAt(s, i) # None}
        g == DMonYAt(s, SetMin(S2))
        d == ToNat(g[1])
        mon == MonthOf(g[2])
        y == ToNat(g[3])
    IN IF period_str = "" THEN None
       ELSE IF S # {} THEN YmdAt(s, SetMin(S))
       ELSE IF S2 # {} /\ mon # 0 /\ y >= 1 /\ d >= 1 /\ d <= DaysIn(mon, y)
            THEN Some(strftime(<<y, mon, d>>, padYear))
       ELSE None

\* r"CONFORMED\s+PERIOD\s+OF\s+REPORT:\s*(\d{8})" (re.I) at position i: the group
ConformedPeriodAt(t, i) ==
    LET a == WsStar(t, LitI(t, WsPlus(t, LitI(t, WsPlus(t, LitI(t, WsPlus(t,
                 LitI(t, i, "CONFORMED")), "PERIOD")), "OF")), "REPORT:"))
    IN IF DigitsN(t, a, 8) = 0 THEN None ELSE Some(SubSeq(t, a, a + 7))

\* r"<periodOfReport>([^<]+)</periodOfReport>" (re.I) at position i: the group
PeriodOfReportAt(t, i) ==
    LET a == LitI(t, i, "<PERIODOFREPORT>")
        b == IF a = 0 THEN 0 ELSE IndexFrom(t, a, "<")
    IN IF b = 0 \/ b = a \/ LitI(t, b, "</PERIODOFREPORT>") = 0 THEN None
       ELSE Some(SubSeq(t, a, b - 1))

\* FilingTextParser.extract_period_from_text
extract_period_from_text(t, padYear) ==
    LET C == {i \in 1..Len(t) : ConformedPeriodAt(t, i) # None}
        P == {i \in 1..Len(t) : PeriodOfReportAt(t, i) # None}
    IN IF C # {} THEN ConformedPeriodAt(t, SetMin(C))
       ELSE IF P # {} THEN normalize_period(PeriodOfReportAt(t, SetMin(P))[1], padYear)
       ELSE None

PeriodYears == {"2023", "0999"}
PeriodMonths == {"12", "02"}
PeriodDays == {"31", "29"}
\* a period in the three spellings the claims name
Ymd(y, m, d, sep) == y \o sep \o m \o sep \o d
Mdy(y, m, d, sep) == m \o sep \o d \o sep \o y
PeriodTexts ==
    {Ymd(y, m, d, sep) : y \in PeriodYears, m \in PeriodMonths, d \in PeriodDays, sep \in {"-", "/", ""}}
    \cup {Mdy(y, m, d, sep) : y \in PeriodYears, m \in PeriodMonths, d \in PeriodDays, sep \in {"-", "/"}}
    \cup {d \o sep \o mon \o sep \o y : d \in PeriodDays, mon \in {"Dec", "feb", "Xyz"},
                                        y \in PeriodYears, sep \in {"-", " "}}
    \cup {"", " 2023-12-31\n", "n/a", "1-2-2023"}
PeriodDocs ==
    {h \o "<periodOfReport>" \o p \o "</periodOfReport>\n" :
        h \in {"", "conformed period of  report:\t20230930\n"}, p \in PeriodTexts}

InitPeriod ==
    /\ \/ pc = "_normalize_period" /\ text \in PeriodTexts
       \/ pc = "extract_period_from_text" /\ text \in PeriodDocs
    /\ result = <<>>
    /\ HeaderIdle /\ RunIdle /\ ScrapeIdle

NormalizePeriod ==
    /\ pc = "_normalize_period" /\ result = <<>>
    /\ \E padYear \in BOOLEAN : result' = Return(normalize_period(text, padYear))
    /\ UNCHANGED <<text, pc, hdrVars, runVars, scrVars>>

ExtractPeriodFromText ==
    /\ pc = "extract_period_from_text" /\ result = <<>>
    /\ \E padYear \in BOOLEAN : result' = Return(extract_period_from_text(text, padYear))
    /\ UNCHANGED <<text, pc, hdrVars, runVars, scrVars>>

NextPeriod == NormalizePeriod \/ ExtractPeriodFromText
SpecPeriod == InitPeriod /\ [][NextPeriod]_vars

\* C23 (as the specification states it): a period written YYYY-MM-DD,
\* MM-DD-YYYY or YYYYMMDD is returned as the same date in the form YYYYMMDD, and
\* a filing whose only period cue is a <periodOfReport>MM-DD-YYYY</periodOfReport>
\* tag gives that YYYYMMDD period.
C23_ThreeFormats ==
    Returned(result) =>
        \A y \in PeriodYears, m \in PeriodMonths, d \in PeriodDays :
            /\ (pc = "_normalize_period"
                    /\ text \in {Ymd(y, m, d, "-"), Mdy(y, m, d, "-"), Ymd(y, m, d, "")})
                  => result[2] = Some(y \o m \o d)
            /\ (pc = "extract_period_from_text"
                    /\ text = "<periodOfReport>" \o Mdy(y, m, d, "-") \o "</periodOfReport>\n")
                  => result[2] = Some(y \o m \o d)

(***************************************************************************)
(* scrape_edgar_links: EdgarLinksProcessor.process_file.  The pages and    *)
(* texts come from the network, so what a fetch gives is an input of each  *)
(* loop pass; one action is one pass of the loop over the sheet rows.      *)
(***************************************************************************)
\* result[key] = value of a dict
DictSet(d, key, value) == [k \in DOMAIN d \cup {key} |-> IF k = key THEN value ELSE d[k]]

\* str.lower()
LowerChar(c) ==
    IF IndexFrom(UpperChars, 1, c) = 0 THEN c ELSE At(LowerChars, IndexFrom(UpperChars, 1, c))
RECURSIVE Lower(_)
Lower(s) ==
    IF Len(s) <= 1 THEN LowerChar(s)
    ELSE Lower(SubSeq(s, 1, Len(s) \div 2)) \o Lower(SubSeq(s, Len(s) \div 2 + 1, Len(s)))

\* the issuer directory the file name selects, "" when the texts are not saved
IssuerOf(xlsx_name) ==
    IF Contains(Lower(xlsx_name), "blackrock") THEN "blackrock"
    ELSE IF Contains(Lower(xlsx_name), "vanguard") THEN "vanguard"
    ELSE ""

\* the path a text of the period is written to: <period>.txt, and with the
\* clock's seconds appended when that file exists
out_path(issuer, safe_period, files, clock) ==
    IF (issuer \o "/" \o safe_period \o ".txt") \in DOMAIN files
    THEN issuer \o "/" \o safe_period \o "_" \o ToStr(clock) \o ".txt"
    ELSE issuer \o "/" \o safe_period \o ".txt"

XlsxNames == {"BlackRock_links.xlsx", "vanguard.XLSX", "other.xlsx", "blackrock.csv"}
\* what the period extraction of a row may give; None when no period is found,
\* and 6 digits when %Y of strftime leaves a year below 1000 unpadded
RowPeriods == {Some("20231231"), Some("20240331"), Some("990101"), None}

InitScrape ==
    /\ text \in XlsxNames /\ pc = "process_file"
    /\ result = [file |-> text, status |-> "skipped"]
    /\ row_no = 0 /\ processed = 0 /\ disk = <<>> /\ now = 1700000000 /\ failed = 0
    /\ HeaderIdle /\ RunIdle

IsXlsx == EndsWith(Lower(text), ".xlsx")

NotXlsx ==
    /\ pc = "process_file" /\ row_no = 0 /\ ~IsXlsx
    /\ result' = DictSet(result, "error", "Not an .xlsx file")
    /\ pc' = "done"
    /\ UNCHANGED <<text, hdrVars, runVars, scrVars>>

ReadExcelFails ==
    /\ pc = "process_file" /\ row_no = 0 /\ IsXlsx
    /\ result' = DictSet(result, "error", "Failed to read Excel: BadZipFile")
    /\ pc' = "done"
    /\ UNCHANGED <<text, hdrVars, runVars, scrVars>>

\* the loop has a further row to read
MoreRows == pc = "process_file" /\ IsXlsx /\ row_no < MaxFilings

\* a row of another form type, or without a URL
RowSkipped ==
    /\ MoreRows
    /\ row_no' = row_no + 1
    /\ UNCHANGED <<text, pc, result, hdrVars, runVars, processed, disk, now, failed>>

\* the passes that end in result[f"error_{processed}"] = ...; continue
RowError(msg) ==
    /\ MoreRows
    /\ result' = DictSet(result, "error_" \o ToStr(processed), msg)
    /\ row_no' = row_no + 1
    /\ failed' = failed + 1
    /\ UNCHANGED <<text, pc, hdrVars, runVars, processed, now>>

PageFetchFails == RowError("Filing page fetch failed: HTTP 404") /\ UNCHANGED disk
NoTxtLink == RowError("No .txt link found on filing page") /\ UNCHANGED disk
TextFetchFails == RowError("Text file fetch failed: HTTP 503") /\ UNCHANGED disk
MissingPeriod == RowError("Missing Period of Report") /\ UNCHANGED disk

UnsafePeriod ==
    /\ IssuerOf(text) # ""
    /\ \E period \in RowPeriods \ {None} :
          /\ Len(DigitsOf(period[1])) # 8
          /\ RowError("Unsafe period value: " \o period[1])
    /\ UNCHANGED disk

\* write_text raises: the file is left as it was, or created or cut to nothing
SaveFails ==
    /\ IssuerOf(text) # ""
    /\ \E period \in RowPeriods \ {None} :
          /\ Len(DigitsOf(period[1])) = 8
          /\ RowError("Failed to save: OSError")
          /\ \/ UNCHANGED disk
             \/ disk' = DictSet(disk, out_path(IssuerOf(text), DigitsOf(period[1]), disk, now), "")

\* the text of the row is written and the row counted
RowSaved ==
    /\ MoreRows /\ IssuerOf(text) # ""
    /\ \E period \in RowPeriods \ {None} :
          /\ Len(DigitsOf(period[1])) = 8
          /\ LET path == out_path(IssuerOf(text), DigitsOf(period[1]), disk, now)
             IN /\ disk' = DictSet(disk, path, "text of row " \o ToStr(row_no + 1))
                /\ result' = DictSet(DictSet(result, "saved_" \o ToStr(processed), path),
                                     "status", "saved")
    /\ processed' = processed + 1
    /\ row_no' = row_no + 1
    /\ UNCHANGED <<text, pc, hdrVars, runVars, now, failed>>

\* a file of no known issuer: the row is counted and nothing is written
RowCounted ==
    /\ MoreRows /\ IssuerOf(text) = ""
    /\ processed' = processed + 1
    /\ row_no' = row_no + 1
    /\ UNCHANGED <<text, pc, result, hdrVars, runVars, disk, now, failed>>

\* a second passes on the clock
Tick ==
    /\ pc = "process_file" /\ now < 1700000000 + MaxTicks
    /\ now' = now + 1
    /\ UNCHANGED <<text, pc, result, hdrVars, runVars, row_no, processed, disk, failed>>

\* the rows are exhausted: return result
EndOfRows ==
    /\ pc = "process_file" /\ IsXlsx
    /\ result' = IF processed = 0 /\ result["status"] # "saved"
                 THEN DictSet(result, "status", "no_matches") ELSE result
    /\ pc' = "done"
    /\ UNCHANGED <<text, hdrVars, runVars, scrVars>>

NextScrape ==
    \/ NotXlsx \/ ReadExcelFails \/ RowSkipped
    \/ PageFetchFails \/ NoTxtLink \/ TextFetchFails \/ MissingPeriod
    \/ UnsafePeriod \/ SaveFails \/ RowSaved \/ RowCounted
    \/ Tick \/ EndOfRows
SpecScrape == InitScrape /\ [][NextScrape]_vars

\* the paths the result reports as saved so far
SavedPaths == {result[k] : k \in {j \in DOMAIN result : StartsWith(j, "saved_")}}

\* no step changes what the path of a saved file holds
C22_Step == \A p \in SavedPaths : p \in DOMAIN disk' /\ disk'[p] = disk[p]

\* C22 (as the specification states it): a save never writes to a path that
\* already holds a previously saved file, also for several rows of the same
\* period handled within the same second.
C22_NeverOverwrites == [][C22_Step]_vars

\* the error entries of the result
ErrorKeys == {k \in DOMAIN result : StartsWith(k, "error_")}

\* C24 (as the specification states it): every failed row leaves its own error
\* entry in the result, so the number of error entries is the number of failed
\* rows.
C24_ErrorPerFailedRow == pc \in {"process_file", "done"} => Cardinality(ErrorKeys) = failed

(***************************************************************************)
(* TypeBlockScraper13FHR.extract_block without an end marker               *)
(***************************************************************************)
\* no end marker stands after the first start marker of the text
NoEndAfterStart(t) ==
    /\ Contains(t, StartMarker)
    /\ FindFrom(t, EndMarker, Find(t, StartMarker) + Len(StartMarker)) = 0

\* C26: when the start marker is present and no end marker occurs after it,
\* extract_block returns None and not the text from the start marker to the
\* end of the document; it returns None as well when the text between the two
\* markers is empty or whitespace only; and it never returns an empty or
\* untrimmed string.
C26_NoEndNoBlock ==
    (pc = "type_extract_block" /\ Returned(result)) =>
        /\ NoEndAfterStart(text) => result[2] = None
        /\ (Contains(text, StartMarker) /\ ~NoEndAfterStart(text) /\ Between(text) = "")
              => result[2] = None
        /\ result[2] # None => (result[2][1] # "" /\ strip(result[2][1]) = result[2][1])

\* a start marker followed by text and no end marker, and an end marker that
\* stands only before the start marker
C26_Witness ==
    /\ pc = "type_extract_block" /\ Returned(result)
    /\ text \in {StartMarker \o "\nName: ACME\n",
                 EndMarker \o "\n" \o StartMarker \o "\nName: ACME\n"}
    /\ result[2] = None

(***************************************************************************)
(* extract_13F_HR.py (entry script): main.  `text` is the input path given *)
(* on the command line and `disk` the files that exist, by content.        *)
(***************************************************************************)
\* Extractor13FHR(*args): the class defines no __init__, so object's applies
\* and a call with arguments raises
Extractor13FHR(args) ==
    IF args = <<>> THEN Return("Extractor13FHR") ELSE Raise("TypeError")

\* Extractor13FHR.run raises on the text: a date tag that is no date, or
\* table markup that is no tree
RunRaises(t) ==
    \/ \E today \in Todays, padYear \in BOOLEAN : Raised(parse_date(t, today, padYear))
    \/ extract_xml(t) # None /\ Raised(parse_rows(extract_xml(t)[1]))

\* extractor.run(*args): input_path is a required parameter
run(args, files) ==
    IF args = <<>> THEN Raise("TypeError")
    ELSE IF RunRaises(files[args[1]]) THEN Raise("Exception")
    ELSE Return("data/extracted_13F_HR/" \o args[1] \o ".xlsx")

InputPaths == {"filing.txt"}

InitMain ==
    /\ text \in InputPaths /\ pc = "main" /\ result = <<>>
    /\ disk \in {<<>>} \cup {[p \in {path} |-> d] : path \in InputPaths, d \in RunDocs}
    /\ row_no = 0 /\ processed = 0 /\ now = 0 /\ failed = 0
    /\ HeaderIdle /\ RunIdle

\* if not input_path.exists(): return 1
MainInputNotFound ==
    /\ pc = "main" /\ text \notin DOMAIN disk
    /\ result' = Return(1)
    /\ pc' = "done"
    /\ UNCHANGED <<text, hdrVars, runVars, scrVars>>

\* the try statement: construct the extractor, run it, return 0; return 2 on
\* any exception
MainTry ==
    /\ pc = "main" /\ text \in DOMAIN disk
    /\ LET extractor == Extractor13FHR(<<text, "data/extracted_13F_HR">>)
           outcome == IF Raised(extractor) THEN extractor ELSE run(<<>>, disk)
       IN result' = IF Raised(outcome) THEN Return(2) ELSE Return(0)
    /\ pc' = "done"
    /\ UNCHANGED <<text, hdrVars, runVars, scrVars>>

NextMain == MainInputNotFound \/ MainTry
SpecMain == InitMain /\ [][NextMain]_vars

\* C25 (as the specification states it): main returns 1 when the input path
\* does not exist; when the input file exists and holds an extractable filing
\* it returns 0; it returns 2 only when the extraction itself raises.
C25_ExitCodes ==
    pc = "done" =>
        /\ text \notin DOMAIN disk => result = Return(1)
        /\ (text \in DOMAIN disk /\ ~RunRaises(disk[text])) => result = Return(0)
        /\ result = Return(2) => (text \in DOMAIN disk /\ RunRaises(disk[text]))

====
